---- MODULE Spec2Model ----
(***************************************************************************)
(* A model of the Monkey interpreter: lexer, Pratt parser, environments,   *)
(* tree-walking evaluator and REPL loop.  Every operator is a translation  *)
(* of the Go function of the same name.  A Go string that holds source     *)
(* text (the lexer input, a token literal, a string value) is a sequence   *)
(* of one-character strings, so that it can be scanned and sliced; names   *)
(* and messages are TLA+ strings.  Positions are 0-based as in the Go      *)
(* code, so input[i] of the code is input[i + 1] here.                     *)
(***************************************************************************)
EXTENDS Integers, Sequences, FiniteSets, TLC

VARIABLES
    input,      \* lexer: the source text handed to lexer.New
    l,          \* lexer: the Lexer struct {input, position, readPosition, ch}
    tokens,     \* lexer: the tokens returned so far, each with its source span
    heap,       \* the Environment objects allocated so far; a pointer is an index
    lastOp,     \* the operation the last step performed, with its arguments
    parser,     \* parser: the Parser struct {l, curToken, peekToken, errors}
    program,    \* parser: program.Statements, as built so far by ParseProgram
    evst,       \* evaluator: environments, output, trace, next allocation id
    evres,      \* evaluator: the latest result of Eval
    pc,         \* evaluator: index of the next top-level statement, 0 at the end
    shape,      \* the shape the program was written from; the lines the REPL read
    out         \* REPL: what Start wrote to its writer, one element per write

vars == <<input, l, tokens, heap, lastOp, parser, program, evst, evres, pc, shape, out>>

LexVars == <<l, tokens>>
EnvVars == <<heap, lastOp>>
ParseVars == <<parser, program>>
EvalVars == <<evst, evres, pc, shape, out>>

LexIdle == l = <<>> /\ tokens = <<>>
EnvIdle == heap = <<>> /\ lastOp = <<>>
ParseIdle == parser = <<>> /\ program = <<>>
EvalIdle == evst = <<>> /\ evres = <<>> /\ pc = 0 /\ shape = <<>> /\ out = <<>>

(***************************************************************************)
(* Bounds of the model.                                                    *)
(***************************************************************************)
MaxInputLen == 4
MaxEofCalls == 2

(***************************************************************************)
(* Generic helpers.                                                        *)
(***************************************************************************)
Min(a, b) == IF a < b THEN a ELSE b

RECURSIVE SeqsUpTo(_, _)
SeqsUpTo(S, n) ==
    IF n = 0 THEN {<<>>}
    ELSE LET shorter == SeqsUpTo(S, n - 1)
         IN  shorter \cup {Append(s, x) : s \in {t \in shorter : Len(t) = n - 1}, x \in S}

(***************************************************************************)
(* token package.                                                          *)
(***************************************************************************)
ILLEGAL == "ILLEGAL"
EOF == "EOF"
IDENT == "IDENT"
INT == "INT"
STRING_ == "STRING"
ASSIGN == "="
PLUS == "+"
MINUS == "-"
BANG == "!"
ASTERISK == "*"
SLASH == "/"
LT == "<"
GT == ">"
EQ == "=="
NOT_EQ == "!="
COMMA == ","
SEMICOLON == ";"
COLON == ":"
LPAREN == "("
RPAREN == ")"
LBRACE == "{"
RBRACE == "}"
LBRACKET == "["
RBRACKET == "]"
FUNCTION == "FUNCTION"
LET_ == "LET"
TRUE_ == "TRUE"
FALSE_ == "FALSE"
IF_ == "IF"
ELSE_ == "ELSE"
RETURN == "RETURN"

\* the text of a sequence of characters, as one string
RECURSIVE Str(_)
Str(cs) == IF cs = <<>> THEN "" ELSE Head(cs) \o Str(Tail(cs))

keywords ==
    [w \in {<<"f", "n">>, <<"l", "e", "t">>, <<"t", "r", "u", "e">>,
            <<"f", "a", "l", "s", "e">>, <<"i", "f">>, <<"e", "l", "s", "e">>,
            <<"r", "e", "t", "u", "r", "n">>} |->
        CASE w = <<"f", "n">> -> FUNCTION
          [] w = <<"l", "e", "t">> -> LET_
          [] w = <<"t", "r", "u", "e">> -> TRUE_
          [] w = <<"f", "a", "l", "s", "e">> -> FALSE_
          [] w = <<"i", "f">> -> IF_
          [] w = <<"e", "l", "s", "e">> -> ELSE_
          [] w = <<"r", "e", "t", "u", "r", "n">> -> RETURN]

LookupIdent(ident) ==
    IF ident \in DOMAIN keywords THEN keywords[ident] ELSE IDENT

Token(type, literal) == [Type |-> type, Literal |-> literal]

(***************************************************************************)
(* lexer package.                                                          *)
(***************************************************************************)
\* the zero byte: the lexer's end-of-input sentinel
NUL == "NUL"

Letters ==
    {"a", "b", "c", "d", "e", "f", "g", "h", "i", "j", "k", "l", "m",
     "n", "o", "p", "q", "r", "s", "t", "u", "v", "w", "x", "y", "z",
     "A", "B", "C", "D", "E", "F", "G", "H", "I", "J", "K", "L", "M",
     "N", "O", "P", "Q", "R", "S", "T", "U", "V", "W", "X", "Y", "Z", "_"}

Digits == {"0", "1", "2", "3", "4", "5", "6", "7", "8", "9"}

Whitespace == {" ", "\t", "\n", "\r"}

isLetter(ch) == ch \in Letters

isDigit(ch) == ch \in Digits

\* input[from:to] of the Go code
Slice(s, from, to) == SubSeq(s, from + 1, to)

readChar(lx) ==
    [lx EXCEPT
        !.ch = IF lx.readPosition >= Len(lx.input) THEN NUL
               ELSE lx.input[lx.readPosition + 1],
        !.position = lx.readPosition,
        !.readPosition = lx.readPosition + 1]

peekCharNever(lx) == NUL

peekChar(lx) ==
    IF lx.readPosition >= Len(lx.input) THEN NUL
    ELSE lx.input[lx.readPosition + 1]

RECURSIVE skipWhitespace(_)
skipWhitespace(lx) ==
    IF lx.ch = " " \/ lx.ch = "\t" \/ lx.ch = "\n" \/ lx.ch = "\r"
    THEN skipWhitespace(readChar(lx))
    ELSE lx

RECURSIVE readWhile(_, _)
readWhile(lx, set) ==
    IF lx.ch \in set THEN readWhile(readChar(lx), set) ELSE lx

readIdentifier(lx) ==
    LET position == lx.position
        after == readWhile(lx, Letters)
    IN  [l |-> after, lit |-> Slice(lx.input, position, after.position)]

readNumber(lx) ==
    LET position == lx.position
        after == readWhile(lx, Digits)
    IN  [l |-> after, lit |-> Slice(lx.input, position, after.position)]

RECURSIVE readStringLoop(_)
readStringLoop(lx) ==
    LET nxt == readChar(lx)
    IN  IF nxt.ch = "\"" \/ nxt.ch = NUL THEN nxt ELSE readStringLoop(nxt)

\* the variant that takes the literal from the second character after the quote
readStringSkipping(lx) ==
    LET position == lx.position + 2
        after == readStringLoop(lx)
    IN  [l |-> after, lit |-> Slice(lx.input, position, after.position)]

readString(lx) ==
    LET position == lx.position + 1
        after == readStringLoop(lx)
    IN  [l |-> after, lit |-> Slice(lx.input, position, after.position)]

\* string(ch) for a byte ch: the UTF-8 encoding of the code point ch, which
\* is the byte itself below 0x80 and two bytes from 0x80 on
ByteToString(ch) ==
    IF ch = "0xE9" THEN <<"0xC3", "0xA9">> ELSE <<ch>>

newToken(tokenType, ch) == Token(tokenType, ByteToString(ch))

SingleCharTokens ==
    [c \in {"+", "-", "/", "*", "<", ">", ";", ":", ",", "{", "}", "(", ")", "[", "]"} |->
        CASE c = "+" -> PLUS
          [] c = "-" -> MINUS
          [] c = "/" -> SLASH
          [] c = "*" -> ASTERISK
          [] c = "<" -> LT
          [] c = ">" -> GT
          [] c = ";" -> SEMICOLON
          [] c = ":" -> COLON
          [] c = "," -> COMMA
          [] c = "{" -> LBRACE
          [] c = "}" -> RBRACE
          [] c = "(" -> LPAREN
          [] c = ")" -> RPAREN
          [] c = "[" -> LBRACKET
          [] c = "]" -> RBRACKET]

\* Lexer.NextToken: the lexer after the call and the token returned
NextToken(lx0) ==
    LET lx == skipWhitespace(lx0)
        ch == lx.ch
    IN  CASE ch = "=" ->
               IF peekChar(lx) = "="
               THEN LET l2 == readChar(lx)
                    IN  [l |-> readChar(l2), tok |-> Token(EQ, <<ch, l2.ch>>)]
               ELSE [l |-> readChar(lx), tok |-> newToken(ASSIGN, ch)]
          [] ch = "!" ->
               IF peekChar(lx) = "="
               THEN LET l2 == readChar(lx)
                    IN  [l |-> readChar(l2), tok |-> Token(NOT_EQ, <<ch, l2.ch>>)]
               ELSE [l |-> readChar(lx), tok |-> newToken(BANG, ch)]
          [] ch \in DOMAIN SingleCharTokens ->
               [l |-> readChar(lx), tok |-> newToken(SingleCharTokens[ch], ch)]
          [] ch = "\"" ->
               LET r == readString(lx)
               IN  [l |-> readChar(r.l), tok |-> Token(STRING_, r.lit)]
          [] ch = NUL ->
               [l |-> readChar(lx), tok |-> Token(EOF, <<>>)]
          [] OTHER ->
               IF isLetter(ch)
               THEN LET r == readIdentifier(lx)
                    IN  [l |-> r.l, tok |-> Token(LookupIdent(r.lit), r.lit)]
               ELSE IF isDigit(ch)
               THEN LET r == readNumber(lx)
                    IN  [l |-> r.l, tok |-> Token(INT, r.lit)]
               ELSE [l |-> readChar(lx), tok |-> newToken(ILLEGAL, ch)]

New(in) ==
    readChar([input |-> in, position |-> 0, readPosition |-> 0, ch |-> NUL])

(***************************************************************************)
(* SpecLex: a lexer over every input of at most MaxInputLen characters of  *)
(* LexAlphabet, driven by successive NextToken calls.  Each returned token *)
(* is recorded with the span of source positions the call consumed for it  *)
(* (start: the position after skipWhitespace; end: the position after the  *)
(* call, capped at the input length).                                      *)
(***************************************************************************)
LexAlphabet == {"f", "n", "_", "1", " ", "\t", "=", "!", "\"", "@"}

EofCalls == Cardinality({i \in 1..Len(tokens) : tokens[i].Type = EOF})

LexInit ==
    /\ input \in SeqsUpTo(LexAlphabet, MaxInputLen)
    /\ l = New(input)
    /\ tokens = <<>>
    /\ EnvIdle /\ ParseIdle /\ EvalIdle

LexNextToken ==
    /\ EofCalls < MaxEofCalls
    /\ LET r == NextToken(l)
           start == Min(skipWhitespace(l).position, Len(input))
           end == Min(r.l.position, Len(input))
       IN  /\ l' = r.l
           /\ tokens' = Append(tokens,
                  [Type |-> r.tok.Type, Literal |-> r.tok.Literal,
                   start |-> start, end |-> end])
    /\ UNCHANGED <<input, EnvVars, ParseVars, EvalVars>>

LexNext == LexNextToken

SpecLex == LexInit /\ [][LexNext]_vars

(***************************************************************************)
(* C10.  Token stream.                                                     *)
(***************************************************************************)
\* the position of the first '"' at or after position i, or the input length
RECURSIVE ClosingQuote(_)
ClosingQuote(i) ==
    IF i >= Len(input) \/ input[i + 1] = "\"" THEN Min(i, Len(input))
    ELSE ClosingQuote(i + 1)

OnlyWhitespace(from, to) ==
    \A i \in from .. (to - 1) : input[i + 1] \in Whitespace

CharAt(i) == IF i >= 0 /\ i < Len(input) THEN input[i + 1] ELSE NUL

KeywordKind(w) ==
    CASE Str(w) = "fn" -> FUNCTION
      [] Str(w) = "let" -> LET_
      [] Str(w) = "true" -> TRUE_
      [] Str(w) = "false" -> FALSE_
      [] Str(w) = "if" -> IF_
      [] Str(w) = "else" -> ELSE_
      [] Str(w) = "return" -> RETURN
      [] OTHER -> IDENT

TokenWellFormed(t) ==
    LET text == Slice(input, t.start, t.end)
        first == CharAt(t.start)
    IN  CASE t.Type = EOF ->
               t.Literal = <<>> /\ t.start = Len(input)
          [] t.Type = STRING_ ->
               /\ first = "\""
               /\ t.Literal = Slice(input, t.start + 1, ClosingQuote(t.start + 1))
               /\ t.end = Min(ClosingQuote(t.start + 1) + 1, Len(input))
          [] t.Type \in {EQ, NOT_EQ} ->
               /\ t.end = t.start + 2
               /\ t.Literal = text
               /\ Str(t.Literal) = t.Type
          [] t.Type \in {ASSIGN, BANG} ->
               /\ t.end = t.start + 1
               /\ t.Literal = text
               /\ Str(t.Literal) = t.Type
               /\ CharAt(t.end) # "="
          [] t.Type = INT ->
               /\ t.start < t.end
               /\ t.Literal = text
               /\ \A i \in t.start .. (t.end - 1) : CharAt(i) \in Digits
               /\ CharAt(t.end) \notin Digits
               /\ CharAt(t.start - 1) \notin Digits
          [] t.Type = ILLEGAL ->
               /\ t.end = t.start + 1
               /\ t.Literal = text
          [] OTHER ->
               /\ t.start < t.end
               /\ t.Literal = text
               /\ \A i \in t.start .. (t.end - 1) : CharAt(i) \in Letters
               /\ CharAt(t.end) \notin Letters
               /\ CharAt(t.start - 1) \notin Letters
               /\ t.Type = KeywordKind(t.Literal)

TokenStreamWitnessKeyword ==
    /\ Len(tokens) = 3
    /\ tokens[1].Type = FUNCTION /\ tokens[2].Type = EQ /\ tokens[3].Type = EOF

(***************************************************************************)
(* C11.  SpecBytes: the same lexer over inputs that may hold any byte,     *)
(* among them the zero byte (written NUL, the value readChar also uses for *)
(* the end of the input) and a byte above 0x7F (written "0xE9").           *)
(***************************************************************************)
ByteAlphabet == {"a", "1", " ", "+", "\"", "@", NUL, "0xE9"}

ByteInit ==
    /\ input \in SeqsUpTo(ByteAlphabet, MaxInputLen)
    /\ l = New(input)
    /\ tokens = <<>>
    /\ EnvIdle /\ ParseIdle /\ EvalIdle

SpecBytes == ByteInit /\ [][LexNext]_vars

\* the characters that start an operator or a punctuation token
OperatorChars == {"=", "!"} \cup DOMAIN SingleCharTokens

\* a byte that belongs to no token class of the language
OtherByte(ch) ==
    /\ ch \notin Whitespace
    /\ ch \notin OperatorChars
    /\ ch # "\""
    /\ ch \notin Letters
    /\ ch \notin Digits

\* C11: a NextToken call that finds itself on a byte of the input that is not
\* whitespace, not an operator or punctuation character, not '"', not a
\* letter or underscore and not a digit returns ILLEGAL with exactly that one
\* byte as literal; EOF is returned only once every character of the input
\* has been consumed.
IllegalOrEof ==
    \A k \in 1 .. Len(tokens) :
        LET t == tokens[k]
        IN  /\ (t.start < Len(input) /\ OtherByte(input[t.start + 1])) =>
                  (t.Type = ILLEGAL /\ t.Literal = <<input[t.start + 1]>>)
            /\ t.Type = EOF => t.start = Len(input)

\* the same statement for inputs without a zero byte and without a byte
\* above 0x7F
IllegalOrEofAscii ==
    (\A i \in 1 .. Len(input) : input[i] \notin {NUL, "0xE9"}) => IllegalOrEof

\* "@" has been returned as ILLEGAL and then EOF at the end of the input
IllegalOrEofAsciiWitness ==
    /\ input = <<"a", " ", "@">>
    /\ Len(tokens) = 3
    /\ tokens[2].Type = ILLEGAL /\ tokens[2].Literal = <<"@">>
    /\ tokens[3].Type = EOF

(***************************************************************************)
(* C27.  Lexer cursor safety, under SpecBytes: every input of at most      *)
(* MaxInputLen bytes, among them the zero byte, and NextToken calls up to  *)
(* MaxEofCalls EOF tokens.                                                 *)
(***************************************************************************)
\* the bounds <<start, end>> of the slice input[start:end] that NextToken
\* takes in readString, readIdentifier or readNumber, or <<>> when the call
\* takes none
SliceTaken(lx0) ==
    LET lx == skipWhitespace(lx0)
    IN  CASE lx.ch = "\"" -> <<lx.position + 1, readString(lx).l.position>>
          [] isLetter(lx.ch) -> <<lx.position, readIdentifier(lx).l.position>>
          [] isDigit(lx.ch) -> <<lx.position, readNumber(lx).l.position>>
          [] OTHER -> <<>>

\* readChar and peekChar read input[readPosition] when readPosition is below
\* len(input): the read is inside the input when readPosition is not negative
CursorInOrder ==
    /\ l.readPosition = l.position + 1
    /\ l.position >= 0
    /\ l.ch = IF l.position >= Len(input) THEN NUL ELSE input[l.position + 1]

SlicesInRange ==
    LET s == SliceTaken(l)
    IN  s # <<>> =>
            /\ 0 <= s[1] /\ s[1] <= s[2] /\ s[2] <= Len(input)
            /\ tokens'[Len(tokens')].Literal = SubSeq(input, s[1] + 1, s[2])

\* C27: whatever the input and the number of NextToken calls, also after
\* EOF was returned, readPosition is position + 1, every byte read is inside
\* the input, and every slice taken for a string, an identifier or a number
\* has 0 <= start <= end <= len(input).
LexerCursorSafe == []CursorInOrder /\ [][SlicesInRange]_vars

\* an unterminated string at the end of the input, and a call after EOF
LexerCursorSafeWitness ==
    /\ input = <<"a", "\"", "1">>
    /\ Len(tokens) = 4
    /\ tokens[2].Type = STRING_ /\ tokens[2].Literal = <<"1">>
    /\ tokens[4].Type = EOF
    /\ l.position > Len(input)

\* an opening quote that ends the input
LexerCursorSafeWitnessQuote ==
    /\ input = <<"1", "\"">>
    /\ Len(tokens) = 2
    /\ tokens[2].Type = STRING_ /\ tokens[2].Literal = <<>>

(***************************************************************************)
(* object package: Environment.  The heap is the sequence of Environment   *)
(* structs allocated so far, a *Environment is an index into it and nil is *)
(* 0.  A store is a function from the names it binds to their values.      *)
(***************************************************************************)
NilEnv == 0

EmptyStore == [n \in {} |-> 0]

NewEnvironment(h) ==
    [heap |-> Append(h, [store |-> EmptyStore, outer |-> NilEnv]), env |-> Len(h) + 1]

NewEnclosedEnvironment(h, outer) ==
    LET r == NewEnvironment(h)
    IN  [heap |-> [r.heap EXCEPT ![r.env].outer = outer], env |-> r.env]

\* Environment.Get: [obj, ok]
RECURSIVE Get(_, _, _)
Get(h, e, name) ==
    LET ok == name \in DOMAIN h[e].store
    IN  IF ~ok /\ h[e].outer # NilEnv
        THEN Get(h, h[e].outer, name)
        ELSE [obj |-> IF ok THEN h[e].store[name] ELSE <<>>, ok |-> ok]

StorePut(store, name, val) ==
    [n \in DOMAIN store \cup {name} |-> IF n = name THEN val ELSE store[n]]

\* the environment on e's chain that binds name, or e when none does
RECURSIVE Binder(_, _, _)
Binder(h, e, name) ==
    IF name \in DOMAIN h[e].store \/ h[e].outer = NilEnv THEN e
    ELSE Binder(h, h[e].outer, name)

SetInBinder(h, e, name, val) ==
    LET b == IF Get(h, e, name).ok THEN Binder(h, e, name) ELSE e
    IN  [h EXCEPT ![b].store = StorePut(h[b].store, name, val)]

\* Environment.Set: the heap after e.store[name] = val
Set(h, e, name, val) ==
    [h EXCEPT ![e].store = StorePut(h[e].store, name, val)]

(***************************************************************************)
(* SpecEnv: the top-level environment the REPL creates with               *)
(* NewEnvironment, then any sequence of NewEnclosedEnvironment and Set     *)
(* calls, on at most MaxEnvs environments.                                 *)
(***************************************************************************)
MaxEnvs == 3

EnvNames == {"a", "b"}

Integer(v) == [Type |-> "INTEGER", Value |-> v]

\* the (name, value) pairs Set is called with
EnvBindings == {<<"a", Integer(1)>>, <<"a", Integer(2)>>, <<"b", Integer(1)>>}

EnvInit ==
    /\ heap = NewEnvironment(<<>>).heap
    /\ lastOp = [op |-> "NewEnvironment"]
    /\ input = <<>> /\ LexIdle /\ ParseIdle /\ EvalIdle

EnvNewEnclosed ==
    /\ Len(heap) < MaxEnvs
    /\ \E outer \in 1 .. Len(heap) :
          /\ heap' = NewEnclosedEnvironment(heap, outer).heap
          /\ lastOp' = [op |-> "NewEnclosedEnvironment", outer |-> outer]
    /\ UNCHANGED <<input, LexVars, ParseVars, EvalVars>>

EnvSet ==
    /\ \E e \in 1 .. Len(heap), b \in EnvBindings :
          /\ heap' = Set(heap, e, b[1], b[2])
          /\ lastOp' = [op |-> "Set", env |-> e, name |-> b[1], val |-> b[2]]
    /\ UNCHANGED <<input, LexVars, ParseVars, EvalVars>>

EnvNext == EnvNewEnclosed \/ EnvSet

SpecEnv == EnvInit /\ [][EnvNext]_vars

(***************************************************************************)
(* C5.  Environment frame rule.                                            *)
(***************************************************************************)
\* the environments from e outward, innermost first
RECURSIVE Chain(_, _)
Chain(h, e) == IF e = NilEnv THEN <<>> ELSE <<e>> \o Chain(h, h[e].outer)

\* what a lookup of name from e must give: the binding of the first
\* environment of the chain that has the name
Innermost(h, e, name) ==
    LET chain == Chain(h, e)
        binders == {i \in 1 .. Len(chain) : name \in DOMAIN h[chain[i]].store}
    IN  IF binders = {} THEN [obj |-> <<>>, ok |-> FALSE]
        ELSE LET first == CHOOSE i \in binders : \A j \in binders : i <= j
             IN  [obj |-> h[chain[first]].store[name], ok |-> TRUE]

GetIsInnermost(h) ==
    \A e \in 1 .. Len(h), n \in EnvNames : Get(h, e, n) = Innermost(h, e, n)

SetFrame ==
    lastOp'.op = "Set" =>
        LET e == lastOp'.env
        IN  /\ Len(heap') = Len(heap)
            /\ \A other \in 1 .. Len(heap) : other # e => heap'[other] = heap[other]
            /\ heap'[e].outer = heap[e].outer
            /\ DOMAIN heap'[e].store = DOMAIN heap[e].store \cup {lastOp'.name}
            /\ heap'[e].store[lastOp'.name] = lastOp'.val
            /\ \A n \in DOMAIN heap[e].store :
                  n # lastOp'.name => heap'[e].store[n] = heap[e].store[n]
            /\ \A anc \in 1 .. Len(heap), n \in EnvNames :
                  (anc # e /\ \E i \in 1 .. Len(Chain(heap, e)) : Chain(heap, e)[i] = anc)
                      => Get(heap', anc, n) = Get(heap, anc, n)

\* C5: Set(name, v) on an environment changes only that environment's own
\* store (one binding of it), so every ancestor's Get gives the same result
\* for every name before and after; Get returns the binding of the innermost
\* environment of the chain that has the name and not-found only when none has.
EnvFrameRule == [][SetFrame /\ GetIsInnermost(heap')]_vars

\* a Set on an inner environment has just shadowed a name its parent binds
\* to another value
EnvFrameWitness ==
    /\ lastOp.op = "Set"
    /\ heap[lastOp.env].outer # NilEnv
    /\ lastOp.name \in DOMAIN heap[heap[lastOp.env].outer].store
    /\ heap[heap[lastOp.env].outer].store[lastOp.name] # lastOp.val
    /\ Get(heap, lastOp.env, lastOp.name).obj = lastOp.val

(***************************************************************************)
(* ast package.  A node is a record with its Go type in `kind`; a nil      *)
(* Expression or Statement interface is NilNode.  A nil *ast.LetStatement  *)
(* returned through the ast.Statement interface is a non-nil interface     *)
(* holding a nil pointer: NilLetStatement.                                 *)
(***************************************************************************)
NilNode == [kind |-> "nil"]

NilLetStatement == [kind |-> "(*ast.LetStatement)(nil)"]

Identifier(tok) == [kind |-> "Identifier", Token |-> tok, Value |-> Str(tok.Literal)]

LetStatement(tok, name, value) ==
    [kind |-> "LetStatement", Token |-> tok, Name |-> name, Value |-> value]

ReturnStatement(tok, value) ==
    [kind |-> "ReturnStatement", Token |-> tok, ReturnValue |-> value]

ExpressionStatement(tok, expression) ==
    [kind |-> "ExpressionStatement", Token |-> tok, Expression |-> expression]

BlockStatement(tok, statements) ==
    [kind |-> "BlockStatement", Token |-> tok, Statements |-> statements]

IntegerLiteral(tok, value) == [kind |-> "IntegerLiteral", Token |-> tok, Value |-> value]

StringLiteral(tok) == [kind |-> "StringLiteral", Token |-> tok, Value |-> tok.Literal]

BooleanNode(tok, value) == [kind |-> "Boolean", Token |-> tok, Value |-> value]

PrefixExpression(tok, right) ==
    [kind |-> "PrefixExpression", Token |-> tok, Operator |-> Str(tok.Literal), Right |-> right]

InfixExpression(tok, left, right) ==
    [kind |-> "InfixExpression", Token |-> tok, Left |-> left,
     Operator |-> Str(tok.Literal), Right |-> right]

IfExpression(tok, condition, consequence, alternative) ==
    [kind |-> "IfExpression", Token |-> tok, Condition |-> condition,
     Consequence |-> consequence, Alternative |-> alternative]

FunctionLiteral(tok, parameters, body) ==
    [kind |-> "FunctionLiteral", Token |-> tok, Parameters |-> parameters, Body |-> body]

CallExpression(tok, function, arguments) ==
    [kind |-> "CallExpression", Token |-> tok, Function |-> function,
     Arguments |-> arguments]

ArrayLiteral(tok, elements) == [kind |-> "ArrayLiteral", Token |-> tok, Elements |-> elements]

IndexExpression(tok, left, index) ==
    [kind |-> "IndexExpression", Token |-> tok, Left |-> left, Index |-> index]

\* Pairs: the map's entries, in the order their keys were first inserted
HashLiteral(tok, pairs) == [kind |-> "HashLiteral", Token |-> tok, Pairs |-> pairs]

\* strings.Join
RECURSIVE Join(_, _)
Join(strs, sep) ==
    IF strs = <<>> THEN ""
    ELSE IF Len(strs) = 1 THEN strs[1]
    ELSE strs[1] \o sep \o Join(Tail(strs), sep)

\* The String() method of each node.  A nil node has none (the call panics),
\* except where the method tests for nil first.  HashLiteral.String ranges
\* over a Go map and is left out.
RECURSIVE String(_)
String(node) ==
    LET k == node.kind
        each(nodes) == [i \in 1..Len(nodes) |-> String(nodes[i])]
    IN  CASE k = "Program" -> Join(each(node.Statements), "")
          [] k = "LetStatement" ->
                Str(node.Token.Literal) \o " " \o String(node.Name) \o " = "
                \o (IF node.Value # NilNode THEN String(node.Value) ELSE "") \o ";"
          [] k = "ReturnStatement" ->
                Str(node.Token.Literal) \o " "
                \o (IF node.ReturnValue # NilNode THEN String(node.ReturnValue) ELSE "")
                \o ";"
          [] k = "ExpressionStatement" ->
                IF node.Expression # NilNode THEN String(node.Expression) ELSE ""
          [] k = "BlockStatement" -> Join(each(node.Statements), "")
          [] k = "Identifier" -> node.Value
          [] k \in {"Boolean", "IntegerLiteral", "StringLiteral"} -> Str(node.Token.Literal)
          [] k = "PrefixExpression" -> "(" \o node.Operator \o String(node.Right) \o ")"
          [] k = "InfixExpression" ->
                "(" \o String(node.Left) \o " " \o node.Operator \o " "
                \o String(node.Right) \o ")"
          [] k = "IfExpression" ->
                "if" \o String(node.Condition) \o " " \o String(node.Consequence)
                \o (IF node.Alternative # NilNode
                    THEN "else " \o String(node.Alternative) ELSE "")
          [] k = "FunctionLiteral" ->
                Str(node.Token.Literal) \o "(" \o Join(each(node.Parameters), ", ")
                \o ") " \o String(node.Body)
          [] k = "CallExpression" ->
                String(node.Function) \o "(" \o Join(each(node.Arguments), ", ") \o ")"
          [] k = "ArrayLiteral" -> "[" \o Join(each(node.Elements), ", ") \o "]"
          [] k = "IndexExpression" ->
                "(" \o String(node.Left) \o "[" \o String(node.Index) \o "])"

(***************************************************************************)
(* parser package.  The Parser struct is a record {l, curToken, peekToken, *)
(* errors}; a parse function takes it and returns the parser after the     *)
(* call with the node (or list) it returned.                               *)
(***************************************************************************)
LOWEST == 1
EQUALS == 2
LESSGREATER == 3
SUM == 4
PRODUCT == 5
PREFIX == 6
CALL == 7
INDEX == 8

precedences ==
    [t \in {EQ, NOT_EQ, LT, GT, PLUS, MINUS, SLASH, ASTERISK, LPAREN, LBRACKET} |->
        CASE t \in {EQ, NOT_EQ} -> EQUALS
          [] t \in {LT, GT} -> LESSGREATER
          [] t \in {PLUS, MINUS} -> SUM
          [] t \in {SLASH, ASTERISK} -> PRODUCT
          [] t = LPAREN -> CALL
          [] t = LBRACKET -> INDEX]

\* the token types New registers a prefix / an infix parse function for
prefixParseFns ==
    {IDENT, INT, STRING_, BANG, MINUS, TRUE_, FALSE_, LPAREN, IF_, FUNCTION, LBRACKET, LBRACE}

infixParseFns ==
    {PLUS, MINUS, SLASH, ASTERISK, EQ, NOT_EQ, LT, GT, LPAREN, LBRACKET}

\* the variant that reads the next token into curToken and leaves peekToken
nextTokenKeepingPeek(p) ==
    LET r == NextToken(p.l)
    IN  [p EXCEPT !.curToken = r.tok, !.l = r.l]

nextToken(p) ==
    LET r == NextToken(p.l)
    IN  [p EXCEPT !.curToken = p.peekToken, !.peekToken = r.tok, !.l = r.l]

ParserNew(lx) ==
    nextToken(nextToken([l |-> lx, errors |-> <<>>,
                         curToken |-> Token("", <<>>), peekToken |-> Token("", <<>>)]))

curTokenIs(p, t) == p.curToken.Type = t

peekTokenIs(p, t) == p.peekToken.Type = t

peekError(p, t) ==
    [p EXCEPT !.errors = Append(@,
        "expected next token to be " \o t \o ", got " \o p.peekToken.Type \o " instead")]

\* Every call from one parse function into nextToken, parseExpression,
\* parseBlockStatement or parseStatement: the single point through which the
\* family recurses.  "ParseProgram" is the REPL's way in, on a line of text:
\* l := lexer.New(line); p := parser.New(l); program := p.ParseProgram().
RECURSIVE parse(_, _)

expectPeek(p, t) ==
    IF peekTokenIs(p, t) THEN [p |-> parse("nextToken", <<p>>), ok |-> TRUE]
    ELSE [p |-> peekError(p, t), ok |-> FALSE]

noPrefixParseFnError(p, t) ==
    [p EXCEPT !.errors = Append(@, "no prefix parse function for " \o t \o " found")]

peekPrecedence(p) ==
    IF p.peekToken.Type \in DOMAIN precedences THEN precedences[p.peekToken.Type] ELSE LOWEST

curPrecedence(p) ==
    IF p.curToken.Type \in DOMAIN precedences THEN precedences[p.curToken.Type] ELSE LOWEST

\* the optional semicolon that ends a statement
skipSemicolon(p) == IF peekTokenIs(p, SEMICOLON) THEN parse("nextToken", <<p>>) ELSE p

parseIdentifier(p) == [p |-> p, node |-> Identifier(p.curToken)]

parseStringLiteral(p) == [p |-> p, node |-> StringLiteral(p.curToken)]

parseBoolean(p) == [p |-> p, node |-> BooleanNode(p.curToken, curTokenIs(p, TRUE_))]

DigitValue(c) ==
    CASE c = "0" -> 0 [] c = "1" -> 1 [] c = "2" -> 2 [] c = "3" -> 3 [] c = "4" -> 4
      [] c = "5" -> 5 [] c = "6" -> 6 [] c = "7" -> 7 [] c = "8" -> 8 [] c = "9" -> 9

RECURSIVE DigitsValue(_, _)
DigitsValue(ds, base) ==
    IF ds = <<>> THEN 0
    ELSE DigitsValue(SubSeq(ds, 1, Len(ds) - 1), base) * base + DigitValue(ds[Len(ds)])

\* the digits of math.MaxInt64
MaxInt64Digits ==
    <<"9", "2", "2", "3", "3", "7", "2", "0", "3", "6",
      "8", "5", "4", "7", "7", "5", "8", "0", "7">>

RECURSIVE StripZeros(_)
StripZeros(ds) ==
    IF ds # <<>> /\ ds[1] = "0" THEN StripZeros(Tail(ds)) ELSE ds

\* ds <= es, for two digit strings of the same length
RECURSIVE DigitsLeq(_, _)
DigitsLeq(ds, es) ==
    IF ds = <<>> THEN TRUE
    ELSE IF ds[1] # es[1] THEN DigitValue(ds[1]) < DigitValue(es[1])
    ELSE DigitsLeq(Tail(ds), Tail(es))

\* the range test of ParseInt for bitSize 64, on the digits (math.MaxInt64
\* is 21 digits 7 in base 8)
FitsInt64(ds, base) ==
    LET n == StripZeros(ds)
        max == IF base = 8 THEN [i \in 1 .. 21 |-> "7"] ELSE MaxInt64Digits
    IN  Len(n) < Len(max) \/ (Len(n) = Len(max) /\ DigitsLeq(n, max))

\* strconv.ParseInt(lit, 0, 64) on a run of decimal digits: with base 0 a
\* leading "0" selects base 8, in which the digits 8 and 9 are a syntax error;
\* a value above math.MaxInt64 is a range error
ParseInt(lit) ==
    IF lit = <<>> THEN [value |-> 0, ok |-> FALSE]
    ELSE IF lit[1] = "0"
    THEN LET rest == Tail(lit)
         IN  IF \E i \in 1 .. Len(rest) : rest[i] \in {"8", "9"}
             THEN [value |-> 0, ok |-> FALSE]
             ELSE IF ~FitsInt64(rest, 8) THEN [value |-> 0, ok |-> FALSE]
             ELSE [value |-> DigitsValue(rest, 8), ok |-> TRUE]
    ELSE IF ~FitsInt64(lit, 10) THEN [value |-> 0, ok |-> FALSE]
    ELSE [value |-> DigitsValue(lit, 10), ok |-> TRUE]

parseIntegerLiteral(p) ==
    LET r == ParseInt(p.curToken.Literal)
    IN  IF ~r.ok
        THEN [p |-> [p EXCEPT !.errors = Append(@,
                        "could not parse \"" \o Str(p.curToken.Literal) \o "\" as integer")],
              node |-> NilNode]
        ELSE [p |-> p, node |-> IntegerLiteral(p.curToken, r.value)]

\* hash.Pairs[key] = value on a map keyed by the key's node: every parsed node
\* is a pointer of its own, so only a nil key can meet an equal key
PairsPut(pairs, key, value) ==
    IF key = NilNode /\ \E i \in 1 .. Len(pairs) : pairs[i][1] = NilNode
    THEN [i \in 1 .. Len(pairs) |-> IF pairs[i][1] = NilNode THEN <<key, value>> ELSE pairs[i]]
    ELSE Append(pairs, <<key, value>>)

RECURSIVE parseStatement(_), parseLetStatement(_), parseReturnStatement(_),
          parseExpressionStatement(_), parseExpression(_, _), parseExpressionLoop(_, _, _),
          parsePrefixExpression(_), parseInfixExpression(_, _), parseGroupedExpression(_),
          parseIfExpression(_), parseBlockStatement(_), parseBlockLoop(_, _),
          parseFunctionLiteral(_), parseCallExpression(_, _), parseExpressionList(_, _),
          parseExpressionListLoop(_, _), parseArrayLiteral(_), parseIndexExpression(_, _),
          parseHashLiteral(_), parseHashLoop(_, _), prefixParse(_), infixParse(_, _),
          ParseProgram(_)

parse(fn, args) ==
    CASE fn = "nextToken" -> nextToken(args[1])
      [] fn = "parseExpression" -> parseExpression(args[1], args[2])
      [] fn = "parseBlockStatement" -> parseBlockStatement(args[1])
      [] fn = "parseStatement" -> parseStatement(args[1])
      [] fn = "ParseProgram" -> ParseProgram(ParserNew(New(args[1])))

\* prefix := p.prefixParseFns[p.curToken.Type]; prefix()
prefixParse(p) ==
    LET t == p.curToken.Type
    IN  CASE t = IDENT -> parseIdentifier(p)
          [] t = INT -> parseIntegerLiteral(p)
          [] t = STRING_ -> parseStringLiteral(p)
          [] t \in {BANG, MINUS} -> parsePrefixExpression(p)
          [] t \in {TRUE_, FALSE_} -> parseBoolean(p)
          [] t = LPAREN -> parseGroupedExpression(p)
          [] t = IF_ -> parseIfExpression(p)
          [] t = FUNCTION -> parseFunctionLiteral(p)
          [] t = LBRACKET -> parseArrayLiteral(p)
          [] t = LBRACE -> parseHashLiteral(p)

\* infix := p.infixParseFns[p.curToken.Type]; infix(left)
infixParse(p, left) ==
    LET t == p.curToken.Type
    IN  CASE t = LPAREN -> parseCallExpression(p, left)
          [] t = LBRACKET -> parseIndexExpression(p, left)
          [] OTHER -> parseInfixExpression(p, left)

parseExpressionLoopRightAssoc(p, leftExp, precedence) ==
    IF ~peekTokenIs(p, SEMICOLON) /\ precedence <= peekPrecedence(p)
    THEN IF p.peekToken.Type \notin infixParseFns
         THEN [p |-> p, node |-> leftExp]
         ELSE LET r == infixParse(parse("nextToken", <<p>>), leftExp)
              IN  parseExpressionLoop(r.p, r.node, precedence)
    ELSE [p |-> p, node |-> leftExp]

\* the loop of parseExpression
parseExpressionLoop(p, leftExp, precedence) ==
    IF ~peekTokenIs(p, SEMICOLON) /\ precedence < peekPrecedence(p)
    THEN IF p.peekToken.Type \notin infixParseFns
         THEN [p |-> p, node |-> leftExp]
         ELSE LET r == infixParse(parse("nextToken", <<p>>), leftExp)
              IN  parseExpressionLoop(r.p, r.node, precedence)
    ELSE [p |-> p, node |-> leftExp]

parseExpression(p, precedence) ==
    IF p.curToken.Type \notin prefixParseFns
    THEN [p |-> noPrefixParseFnError(p, p.curToken.Type), node |-> NilNode]
    ELSE LET r == prefixParse(p)
         IN  parseExpressionLoop(r.p, r.node, precedence)

parsePrefixExpression(p) ==
    LET tok == p.curToken
        r == parse("parseExpression", <<parse("nextToken", <<p>>), PREFIX>>)
    IN  [p |-> r.p, node |-> PrefixExpression(tok, r.node)]

parseInfixExpression(p, left) ==
    LET tok == p.curToken
        precedence == curPrecedence(p)
        r == parse("parseExpression", <<parse("nextToken", <<p>>), precedence>>)
    IN  [p |-> r.p, node |-> InfixExpression(tok, left, r.node)]

parseGroupedExpression(p) ==
    LET r == parse("parseExpression", <<parse("nextToken", <<p>>), LOWEST>>)
        e == expectPeek(r.p, RPAREN)
    IN  IF ~e.ok THEN [p |-> e.p, node |-> NilNode]
        ELSE [p |-> e.p, node |-> r.node]

parseBlockLoop(p, statements) ==
    IF ~curTokenIs(p, RBRACE) /\ ~curTokenIs(p, EOF)
    THEN LET r == parse("parseStatement", <<p>>)
             stmts == IF r.node # NilNode THEN Append(statements, r.node) ELSE statements
         IN  parseBlockLoop(parse("nextToken", <<r.p>>), stmts)
    ELSE [p |-> p, list |-> statements]

parseBlockStatement(p) ==
    LET tok == p.curToken
        r == parseBlockLoop(parse("nextToken", <<p>>), <<>>)
    IN  [p |-> r.p, node |-> BlockStatement(tok, r.list)]

parseIfExpression(p) ==
    LET tok == p.curToken
        e1 == expectPeek(p, LPAREN)
    IN  IF ~e1.ok THEN [p |-> e1.p, node |-> NilNode]
        ELSE
        LET cond == parse("parseExpression", <<parse("nextToken", <<e1.p>>), LOWEST>>)
            e2 == expectPeek(cond.p, RPAREN)
        IN  IF ~e2.ok THEN [p |-> e2.p, node |-> NilNode]
            ELSE
            LET e3 == expectPeek(e2.p, LBRACE)
            IN  IF ~e3.ok THEN [p |-> e3.p, node |-> NilNode]
                ELSE
                LET cons == parse("parseBlockStatement", <<e3.p>>)
                IN  IF peekTokenIs(cons.p, ELSE_)
                    THEN LET e4 == expectPeek(parse("nextToken", <<cons.p>>), LBRACE)
                         IN  IF ~e4.ok THEN [p |-> e4.p, node |-> NilNode]
                             ELSE LET alt == parse("parseBlockStatement", <<e4.p>>)
                                  IN  [p |-> alt.p,
                                       node |-> IfExpression(tok, cond.node, cons.node, alt.node)]
                    ELSE [p |-> cons.p,
                          node |-> IfExpression(tok, cond.node, cons.node, NilNode)]

RECURSIVE parseFunctionParametersLoop(_, _)
parseFunctionParametersLoop(p, identifiers) ==
    IF peekTokenIs(p, COMMA)
    THEN LET p2 == parse("nextToken", <<parse("nextToken", <<p>>)>>)
         IN  parseFunctionParametersLoop(p2, Append(identifiers, Identifier(p2.curToken)))
    ELSE [p |-> p, list |-> identifiers]

\* a nil slice and an empty slice are both the empty sequence
parseFunctionParameters(p) ==
    IF peekTokenIs(p, RPAREN) THEN [p |-> parse("nextToken", <<p>>), list |-> <<>>]
    ELSE LET p1 == parse("nextToken", <<p>>)
             r == parseFunctionParametersLoop(p1, <<Identifier(p1.curToken)>>)
             e == expectPeek(r.p, RPAREN)
         IN  IF ~e.ok THEN [p |-> e.p, list |-> <<>>]
             ELSE [p |-> e.p, list |-> r.list]

parseFunctionLiteral(p) ==
    LET tok == p.curToken
        e1 == expectPeek(p, LPAREN)
    IN  IF ~e1.ok THEN [p |-> e1.p, node |-> NilNode]
        ELSE
        LET params == parseFunctionParameters(e1.p)
            e2 == expectPeek(params.p, LBRACE)
        IN  IF ~e2.ok THEN [p |-> e2.p, node |-> NilNode]
            ELSE LET body == parse("parseBlockStatement", <<e2.p>>)
                 IN  [p |-> body.p, node |-> FunctionLiteral(tok, params.list, body.node)]

parseExpressionListLoop(p, list) ==
    IF peekTokenIs(p, COMMA)
    THEN LET r == parse("parseExpression", <<parse("nextToken", <<parse("nextToken", <<p>>)>>), LOWEST>>)
         IN  parseExpressionListLoop(r.p, Append(list, r.node))
    ELSE [p |-> p, list |-> list]

parseExpressionList(p, end) ==
    IF peekTokenIs(p, end) THEN [p |-> parse("nextToken", <<p>>), list |-> <<>>]
    ELSE LET first == parse("parseExpression", <<parse("nextToken", <<p>>), LOWEST>>)
             r == parseExpressionListLoop(first.p, <<first.node>>)
             e == expectPeek(r.p, end)
         IN  IF ~e.ok THEN [p |-> e.p, list |-> <<>>]
             ELSE [p |-> e.p, list |-> r.list]

parseCallExpression(p, function) ==
    LET tok == p.curToken
        r == parseExpressionList(p, RPAREN)
    IN  [p |-> r.p, node |-> CallExpression(tok, function, r.list)]

parseArrayLiteral(p) ==
    LET tok == p.curToken
        r == parseExpressionList(p, RBRACKET)
    IN  [p |-> r.p, node |-> ArrayLiteral(tok, r.list)]

parseIndexExpression(p, left) ==
    LET tok == p.curToken
        r == parse("parseExpression", <<parse("nextToken", <<p>>), LOWEST>>)
        e == expectPeek(r.p, RBRACKET)
    IN  IF ~e.ok THEN [p |-> e.p, node |-> NilNode]
        ELSE [p |-> e.p, node |-> IndexExpression(tok, left, r.node)]

\* the loop of parseHashLiteral; ok is FALSE when it returned nil
parseHashLoop(p, pairs) ==
    IF ~peekTokenIs(p, RBRACE)
    THEN LET key == parse("parseExpression", <<parse("nextToken", <<p>>), LOWEST>>)
             e1 == expectPeek(key.p, COLON)
         IN  IF ~e1.ok THEN [p |-> e1.p, list |-> pairs, ok |-> FALSE]
             ELSE
             LET value == parse("parseExpression", <<parse("nextToken", <<e1.p>>), LOWEST>>)
                 put == PairsPut(pairs, key.node, value.node)
             IN  IF peekTokenIs(value.p, RBRACE) THEN parseHashLoop(value.p, put)
                 ELSE LET e2 == expectPeek(value.p, COMMA)
                      IN  IF ~e2.ok THEN [p |-> e2.p, list |-> put, ok |-> FALSE]
                          ELSE parseHashLoop(e2.p, put)
    ELSE [p |-> p, list |-> pairs, ok |-> TRUE]

parseHashLiteral(p) ==
    LET tok == p.curToken
        r == parseHashLoop(p, <<>>)
    IN  IF ~r.ok THEN [p |-> r.p, node |-> NilNode]
        ELSE LET e == expectPeek(r.p, RBRACE)
             IN  IF ~e.ok THEN [p |-> e.p, node |-> NilNode]
                 ELSE [p |-> e.p, node |-> HashLiteral(tok, r.list)]

parseLetStatement(p) ==
    LET tok == p.curToken
        e1 == expectPeek(p, IDENT)
    IN  IF ~e1.ok THEN [p |-> e1.p, node |-> NilLetStatement]
        ELSE
        LET name == Identifier(e1.p.curToken)
            e2 == expectPeek(e1.p, ASSIGN)
        IN  IF ~e2.ok THEN [p |-> e2.p, node |-> NilLetStatement]
            ELSE LET r == parse("parseExpression", <<parse("nextToken", <<e2.p>>), LOWEST>>)
                 IN  [p |-> skipSemicolon(r.p), node |-> LetStatement(tok, name, r.node)]

parseReturnStatement(p) ==
    LET tok == p.curToken
        r == parse("parseExpression", <<parse("nextToken", <<p>>), LOWEST>>)
    IN  [p |-> skipSemicolon(r.p), node |-> ReturnStatement(tok, r.node)]

parseExpressionStatement(p) ==
    LET tok == p.curToken
        r == parse("parseExpression", <<p, LOWEST>>)
    IN  [p |-> skipSemicolon(r.p), node |-> ExpressionStatement(tok, r.node)]

parseStatement(p) ==
    CASE p.curToken.Type = LET_ -> parseLetStatement(p)
      [] p.curToken.Type = RETURN -> parseReturnStatement(p)
      [] OTHER -> parseExpressionStatement(p)

\* the variant that leaves out the nextToken that ends an iteration
ParseProgramStepInPlace(p, statements) ==
    LET r == parse("parseStatement", <<p>>)
        stmts == IF r.node # NilNode THEN Append(statements, r.node) ELSE statements
    IN  [p |-> r.p, list |-> stmts]

\* one iteration of the loop of ParseProgram
ParseProgramStep(p, statements) ==
    LET r == parse("parseStatement", <<p>>)
        stmts == IF r.node # NilNode THEN Append(statements, r.node) ELSE statements
    IN  [p |-> parse("nextToken", <<r.p>>), list |-> stmts]

RECURSIVE ParseProgramLoop(_, _)
ParseProgramLoop(p, statements) ==
    IF ~curTokenIs(p, EOF)
    THEN LET r == ParseProgramStep(p, statements)
         IN  ParseProgramLoop(r.p, r.list)
    ELSE [p |-> p, list |-> statements]

Program(statements) == [kind |-> "Program", Statements |-> statements]

ParseProgram(p) ==
    LET r == ParseProgramLoop(p, <<>>)
    IN  [p |-> r.p, node |-> Program(r.list)]

(***************************************************************************)
(* Source text is written as a sequence of words, joined by single spaces. *)
(***************************************************************************)
Chars(w) ==
    CASE w = "let" -> <<"l", "e", "t">>
      [] w = "fn" -> <<"f", "n">>
      [] w = "if" -> <<"i", "f">>
      [] w = "else" -> <<"e", "l", "s", "e">>
      [] w = "return" -> <<"r", "e", "t", "u", "r", "n">>
      [] w = "true" -> <<"t", "r", "u", "e">>
      [] w = "false" -> <<"f", "a", "l", "s", "e">>
      [] w = "puts" -> <<"p", "u", "t", "s">>
      [] w = "==" -> <<"=", "=">>
      [] w = "!=" -> <<"!", "=">>
      [] OTHER -> <<w>>

RECURSIVE Source(_)
Source(words) ==
    IF words = <<>> THEN <<>>
    ELSE IF Len(words) = 1 THEN Chars(words[1])
    ELSE LET half == Len(words) \div 2
         IN  Source(SubSeq(words, 1, half)) \o <<" ">>
             \o Source(SubSeq(words, half + 1, Len(words)))

(***************************************************************************)
(* SpecParse: ParseProgram, one iteration of its loop per step, on every   *)
(* source text of at most MaxWords words of ParseWords.                    *)
(***************************************************************************)
MaxWords == 4

ParseWords == {"let", "a", "=", "1", ";", "(", ")", "-", "[", "+"}

ParseInit ==
    /\ input \in {Source(ws) : ws \in SeqsUpTo(ParseWords, MaxWords)}
    /\ parser = ParserNew(New(input))
    /\ program = <<>>
    /\ LexIdle /\ EnvIdle /\ EvalIdle

ParseStep ==
    /\ ~curTokenIs(parser, EOF)
    /\ LET r == ParseProgramStep(parser, program)
       IN  parser' = r.p /\ program' = r.list
    /\ UNCHANGED <<input, LexVars, EnvVars, EvalVars>>

ParseNext == ParseStep

SpecParse == ParseInit /\ [][ParseNext]_vars

(***************************************************************************)
(* C12.  SpecInt: ParseProgram on one integer literal: every run of at     *)
(* most MaxDigits digits of IntDigits, and the literal one above           *)
(* math.MaxInt64.                                                          *)
(***************************************************************************)
MaxDigits == 3

IntDigits == {"0", "1", "7", "8", "9"}

AboveMaxInt64 ==
    <<"9", "2", "2", "3", "3", "7", "2", "0", "3", "6",
      "8", "5", "4", "7", "7", "5", "8", "0", "8">>

IntInit ==
    /\ input \in (SeqsUpTo(IntDigits, MaxDigits) \ {<<>>}) \cup {AboveMaxInt64}
    /\ parser = ParserNew(New(input))
    /\ program = <<>>
    /\ LexIdle /\ EnvIdle /\ EvalIdle

SpecInt == IntInit /\ [][ParseNext]_vars

\* the one statement of the program is an integer literal of value v
ParsedInteger(v) ==
    /\ Len(program) = 1
    /\ program[1].kind = "ExpressionStatement"
    /\ program[1].Expression.kind = "IntegerLiteral"
    /\ program[1].Expression.Value = v
    /\ program[1].Expression.Token = Token(INT, input)

CouldNotParse == "could not parse \"" \o Str(input) \o "\" as integer"

\* C12: once the literal is parsed, if its decimal value fits in a signed
\* 64-bit integer the program holds an IntegerLiteral with the decimal value
\* of the digit string (leading zeros included) and no error is recorded; the
\* error could not parse "<literal>" as integer is recorded only when the
\* decimal value does not fit.
DecimalLiterals ==
    curTokenIs(parser, EOF) =>
        IF FitsInt64(input, 10)
        THEN ParsedInteger(DigitsValue(input, 10)) /\ parser.errors = <<>>
        ELSE parser.errors = <<CouldNotParse>>

\* the same statement for literals without a leading zero, and for "0"
DecimalLiteralsNoLeadingZero ==
    (input[1] # "0" \/ input = <<"0">>) => DecimalLiterals

\* "109" has been parsed as 109
DecimalLiteralsWitness ==
    /\ input = <<"1", "0", "9">>
    /\ curTokenIs(parser, EOF)
    /\ ParsedInteger(109)
    /\ parser.errors = <<>>

\* the literal above math.MaxInt64 has been refused
DecimalLiteralsWitnessRange ==
    /\ input = AboveMaxInt64
    /\ curTokenIs(parser, EOF)
    /\ parser.errors = <<CouldNotParse>>

(***************************************************************************)
(* The tokens of the input, and the place of the parser among them.        *)
(***************************************************************************)
RECURSIVE TokensOf(_)
TokensOf(lx) ==
    LET r == NextToken(lx)
    IN  IF r.tok.Type = EOF THEN <<r.tok>> ELSE <<r.tok>> \o TokensOf(r.l)

RECURSIVE NextTokenCalls(_, _)
NextTokenCalls(lx, target) ==
    IF lx = target THEN 0 ELSE 1 + NextTokenCalls(NextToken(lx).l, target)

\* index, among the tokens of the input, of ps.curToken; the EOF token stands
\* for every token read at or after the end
CurIndex(ps) ==
    Min(NextTokenCalls(New(input), ps.l) - 1, Len(TokensOf(New(input))))

\* index of the token that follows the first `;` at or after token i, or of EOF
BoundaryAfter(i) ==
    LET toks == TokensOf(New(input))
        semis == {j \in i..Len(toks) : toks[j].Type = SEMICOLON}
    IN  IF semis = {} THEN Len(toks)
        ELSE (CHOOSE j \in semis : \A k \in semis : j <= k) + 1

\* the statement parsed by this step recorded a parse error
StatementFailed == Len(parser'.errors) > Len(parser.errors)

\* C8: a statement in which a parselet recorded a parse error contributes no
\* node to the Program: every parselet up to the statement returned nothing.
FailedStatementAddsNothing == [][StatementFailed => program' = program]_vars

\* C9: after a statement fails to parse, the next statement starts at the token
\* following the failed statement's terminating `;`, or at EOF.
ResumeAtStatementBoundary ==
    [][StatementFailed => CurIndex(parser') = BoundaryAfter(CurIndex(parser))]_vars

(***************************************************************************)
(* SpecPrec: ParseProgram on one expression statement: up to MaxOperands   *)
(* operands joined by binary operators, with at most one prefix operator,  *)
(* before one of the first MaxPrefixAt operands, and at most one           *)
(* parenthesised pair of operands.                                         *)
(***************************************************************************)
MaxOperands == 4
MaxPrefixAt == 3

BinaryWords == {"==", "!=", "<", ">", "+", "-", "*", "/"}

OperandWords == <<"a", "1", "b", "c", "d", "e">>

\* A shape [n, ops, pre, par].  pre = k > 0: a prefix operator stands before
\* operand k (before the group, when the group opens there); par = <<i, j>>,
\* j = i + 1: operands i and j are parenthesised
ParenChoices(n) == {<<0, 0>>} \cup {<<i, i + 1>> : i \in 1..(n - 1)}

PrefixWordAt(k) == IF k % 2 = 1 THEN "-" ELSE "!"

RECURSIVE ExprWordsFrom(_, _)
ExprWordsFrom(sh, k) ==
    IF k > sh.n THEN <<>>
    ELSE (IF sh.pre = k THEN <<PrefixWordAt(k)>> ELSE <<>>)
         \o (IF sh.par[1] = k THEN <<"(">> ELSE <<>>)
         \o <<OperandWords[k]>>
         \o (IF sh.par[2] = k THEN <<")">> ELSE <<>>)
         \o (IF k < sh.n THEN <<sh.ops[k]>> ELSE <<>>)
         \o ExprWordsFrom(sh, k + 1)

ExprWords(sh) == ExprWordsFrom(sh, 1)

PrecInit ==
    /\ \E n \in 1..MaxOperands :
       \E ops \in [1..(n - 1) -> BinaryWords], pre \in 0..Min(n, MaxPrefixAt),
          par \in ParenChoices(n) :
          input = Source(ExprWords([n |-> n, ops |-> ops, pre |-> pre, par |-> par]))
    /\ parser = ParserNew(New(input))
    /\ program = <<>>
    /\ LexIdle /\ EnvIdle /\ EvalIdle

SpecPrec == PrecInit /\ [][ParseNext]_vars

(***************************************************************************)
(* The grouping an expression's tokens call for, found without the parser: *)
(* the root of a token run is its last binary operator of lowest level     *)
(* outside parentheses; failing that a leading prefix operator; failing    *)
(* that the run is one operand or one parenthesised group.                 *)
(***************************************************************************)
BindingLevel(type) ==
    CASE type \in {EQ, NOT_EQ} -> 1
      [] type \in {LT, GT} -> 2
      [] type \in {PLUS, MINUS} -> 3
      [] type \in {ASTERISK, SLASH} -> 4

ParenDepth(ts, i) ==
    Cardinality({j \in 1..(i - 1) : ts[j].Type = LPAREN})
    - Cardinality({j \in 1..(i - 1) : ts[j].Type = RPAREN})

BinaryAt(ts) ==
    {i \in 2..(Len(ts) - 1) :
        /\ ts[i].Type \in {EQ, NOT_EQ, LT, GT, PLUS, MINUS, ASTERISK, SLASH}
        /\ ts[i - 1].Type \in {IDENT, INT, RPAREN}
        /\ ParenDepth(ts, i) = 0}

RECURSIVE Grouping(_)
Grouping(ts) ==
    LET B == BinaryAt(ts)
    IN  IF B # {}
        THEN LET i == CHOOSE i \in B : \A j \in B :
                        \/ BindingLevel(ts[i].Type) < BindingLevel(ts[j].Type)
                        \/ BindingLevel(ts[i].Type) = BindingLevel(ts[j].Type) /\ j <= i
             IN  [left |-> Grouping(SubSeq(ts, 1, i - 1)), op |-> Str(ts[i].Literal),
                  right |-> Grouping(SubSeq(ts, i + 1, Len(ts)))]
        ELSE IF ts[1].Type \in {MINUS, BANG}
        THEN [op |-> Str(ts[1].Literal), right |-> Grouping(Tail(ts))]
        ELSE IF ts[1].Type = LPAREN THEN Grouping(SubSeq(ts, 2, Len(ts) - 1))
        ELSE [leaf |-> Str(ts[1].Literal)]

\* a grouping written out with every prefix and infix part in parentheses
RECURSIVE Parenthesized(_)
Parenthesized(g) ==
    IF "leaf" \in DOMAIN g THEN g.leaf
    ELSE IF "left" \in DOMAIN g
    THEN "(" \o Parenthesized(g.left) \o " " \o g.op \o " " \o Parenthesized(g.right) \o ")"
    ELSE "(" \o g.op \o Parenthesized(g.right) \o ")"

\* the grouping of a parsed expression
RECURSIVE GroupingOf(_)
GroupingOf(node) ==
    CASE node.kind = "InfixExpression" ->
            [left |-> GroupingOf(node.Left), op |-> node.Operator,
             right |-> GroupingOf(node.Right)]
      [] node.kind = "PrefixExpression" ->
            [op |-> node.Operator, right |-> GroupingOf(node.Right)]
      [] node.kind \in {"Identifier", "IntegerLiteral"} -> [leaf |-> Str(node.Token.Literal)]

\* the tokens of the input, without the closing EOF
ExprTokens == LET ts == TokensOf(New(input)) IN SubSeq(ts, 1, Len(ts) - 1)

\* C7: an expression of operands, binary operators, a prefix operator and
\* parentheses parses without error into one expression statement whose tree
\* groups higher-precedence operators more tightly, equal ones to the left and
\* parenthesised parts as written; its display parenthesises every prefix and
\* infix part.
PrecedenceGrouping ==
    curTokenIs(parser, EOF) =>
        /\ parser.errors = <<>>
        /\ Len(program) = 1
        /\ program[1].kind = "ExpressionStatement"
        /\ LET g == Grouping(ExprTokens)
           IN  /\ GroupingOf(program[1].Expression) = g
               /\ String(Program(program)) = Parenthesized(g)

PrecedenceGroupingWitness ==
    /\ input = Source(<<"a", "+", "1", "*", "b", "-", "c">>)
    /\ curTokenIs(parser, EOF)
    /\ String(Program(program)) = "((a + (1 * b)) - c)"

(***************************************************************************)
(* object package.  An object is a record with its Type(); objects that   *)
(* the evaluator allocates and may compare by pointer carry the id of      *)
(* their allocation.  Nil is Go's nil object.Object.                       *)
(***************************************************************************)
NULL_OBJ == "NULL"
ERROR_OBJ == "ERROR"
INTEGER_OBJ == "INTEGER"
BOOLEAN_OBJ == "BOOLEAN"
STRING_OBJ == "STRING"
RETURN_VALUE_OBJ == "RETURN_VALUE"
FUNCTION_OBJ == "FUNCTION"
BUILTIN_OBJ == "BUILTIN"
ARRAY_OBJ == "ARRAY"
HASH_OBJ == "HASH"

Nil == [Type |-> "nil"]

BooleanObject(v) == [Type |-> BOOLEAN_OBJ, Value |-> v]

StringObject(v) == [Type |-> STRING_OBJ, Value |-> v]

ReturnValue(v, id) == [Type |-> RETURN_VALUE_OBJ, Value |-> v, id |-> id]

Error(message) == [Type |-> ERROR_OBJ, Message |-> message]

Function(parameters, body, env, id) ==
    [Type |-> FUNCTION_OBJ, Parameters |-> parameters, Body |-> body, Env |-> env, id |-> id]

Builtin(name) == [Type |-> BUILTIN_OBJ, Fn |-> name]

Array(elements, id) == [Type |-> ARRAY_OBJ, Elements |-> elements, id |-> id]

\* Hash.Pairs is a Go map from HashKey to HashPair: a function on the set of
\* the keys it holds
Hash(pairs, id) == [Type |-> HASH_OBJ, Pairs |-> pairs, id |-> id]

HashPair(key, value) == [Key |-> key, Value |-> value]

\* A uint64 is the sequence of its 8 bytes, the least significant first.
\* the bytes of a natural number
RECURSIVE Bytes(_, _)
Bytes(n, count) ==
    IF count = 0 THEN <<>> ELSE <<n % 256>> \o Bytes(n \div 256, count - 1)

\* uint64(v) of an int64: v itself from 0 on, 2^64 + v below 0 (every bit of
\* -v - 1 inverted)
Uint64(v) ==
    IF v >= 0 THEN Bytes(v, 8)
    ELSE LET b == Bytes(0 - v - 1, 8) IN [i \in 1 .. 8 |-> 255 - b[i]]

\* the characters from ' ' (32) to '~' (126) in the order of their codes
Ascii ==
    <<" ", "!", "\"", "#", "$", "%", "&", "'", "(", ")", "*", "+", ",", "-", ".", "/",
      "0", "1", "2", "3", "4", "5", "6", "7", "8", "9", ":", ";", "<", "=", ">", "?",
      "@", "A", "B", "C", "D", "E", "F", "G", "H", "I", "J", "K", "L", "M", "N", "O",
      "P", "Q", "R", "S", "T", "U", "V", "W", "X", "Y", "Z", "[", "\\", "]", "^", "_",
      "backquote", "a", "b", "c", "d", "e", "f", "g", "h", "i", "j", "k", "l", "m", "n",
      "o", "p", "q", "r", "s", "t", "u", "v", "w", "x", "y", "z", "{", "|", "}", "~">>

\* []byte(s)[i] for a character of Ascii
ByteOf(ch) == 31 + CHOOSE i \in 1 .. Len(Ascii) : Ascii[i] = ch

\* a ^ b on two bytes
RECURSIVE Xor(_, _)
Xor(a, b) ==
    IF a = 0 /\ b = 0 THEN 0
    ELSE ((a + b) % 2) + 2 * Xor(a \div 2, b \div 2)

\* h * 1099511628211 modulo 2^64, byte i onwards: the prime is 2^40 + 435
RECURSIVE FnvMultiply(_, _, _)
FnvMultiply(h, i, carry) ==
    IF i > 8 THEN <<>>
    ELSE LET t == h[i] * 435 + (IF i > 5 THEN h[i - 5] ELSE 0) + carry
         IN  <<t % 256>> \o FnvMultiply(h, i + 1, t \div 256)

\* fnv.New64a, Write and Sum64: from the offset basis 0xcbf29ce484222325,
\* for each byte hash ^= byte, then hash *= prime
RECURSIVE Fnv64a(_, _)
Fnv64a(h, bytes) ==
    IF bytes = <<>> THEN h
    ELSE Fnv64a(FnvMultiply([h EXCEPT ![1] = Xor(@, ByteOf(bytes[1]))], 1, 0), Tail(bytes))

\* the types that implement object.Hashable
Hashable(obj) == obj.Type \in {INTEGER_OBJ, BOOLEAN_OBJ, STRING_OBJ}

\* the variant that leaves the type out of the key
HashKeyUntyped(obj) ==
    [Type |-> "",
     Value |-> CASE obj.Type = INTEGER_OBJ -> Uint64(obj.Value)
                 [] obj.Type = BOOLEAN_OBJ -> IF obj.Value THEN Bytes(1, 8) ELSE Bytes(0, 8)
                 [] obj.Type = STRING_OBJ ->
                        Fnv64a(<<37, 35, 34, 132, 228, 156, 242, 203>>, obj.Value)]

HashKey(obj) ==
    [Type |-> obj.Type,
     Value |-> CASE obj.Type = INTEGER_OBJ -> Uint64(obj.Value)
                 [] obj.Type = BOOLEAN_OBJ -> IF obj.Value THEN Bytes(1, 8) ELSE Bytes(0, 8)
                 [] obj.Type = STRING_OBJ ->
                        Fnv64a(<<37, 35, 34, 132, 228, 156, 242, 203>>, obj.Value)]

\* a Go runtime panic: it unwinds every caller
Panic(message) == [Type |-> "panic", Message |-> message]

IsPanic(obj) == obj.Type = "panic"

NilDereference == Panic("invalid memory address or nil pointer dereference")

\* fmt.Sprintf("%d", n)
RECURSIVE Itoa(_)
Itoa(n) ==
    IF n < 0 THEN "-" \o Itoa(0 - n)
    ELSE IF n < 10
    THEN CASE n = 0 -> "0" [] n = 1 -> "1" [] n = 2 -> "2" [] n = 3 -> "3" [] n = 4 -> "4"
           [] n = 5 -> "5" [] n = 6 -> "6" [] n = 7 -> "7" [] n = 8 -> "8" [] n = 9 -> "9"
    ELSE Itoa(n \div 10) \o Itoa(n % 10)

\* Inspect() of an object other than a Hash
RECURSIVE Inspect(_)
Inspect(obj) ==
    LET t == obj.Type
    IN  CASE t = INTEGER_OBJ -> Itoa(obj.Value)
          [] t = BOOLEAN_OBJ -> IF obj.Value THEN "true" ELSE "false"
          [] t = NULL_OBJ -> "null"
          [] t = RETURN_VALUE_OBJ -> Inspect(obj.Value)
          [] t = ERROR_OBJ -> "ERROR: " \o obj.Message
          [] t = FUNCTION_OBJ ->
                "fn(" \o Join([i \in 1..Len(obj.Parameters) |-> String(obj.Parameters[i])], ", ")
                \o ") {\n" \o String(obj.Body) \o "\n}"
          [] t = STRING_OBJ -> Str(obj.Value)
          [] t = BUILTIN_OBJ -> "builtin function"
          [] t = ARRAY_OBJ ->
                "[" \o Join([i \in 1..Len(obj.Elements) |-> Inspect(obj.Elements[i])], ", ")
                \o "]"

(***************************************************************************)
(* evaluator package.  The evaluator's effects are threaded through a      *)
(* record st = [heap, out, trace, nextId]: the environments, the lines     *)
(* written to standard output, the statements evaluated and functions      *)
(* applied so far, and the id of the next allocation.  A function that has *)
(* effects returns [val, st].                                              *)
(***************************************************************************)
NULL == [Type |-> NULL_OBJ]
TrueObject == BooleanObject(TRUE)
FalseObject == BooleanObject(FALSE)

nativeBoolToBooleanObject(b) == IF b THEN TrueObject ELSE FalseObject

newError(message) == Error(message)

isError(obj) == IF obj # Nil THEN obj.Type = ERROR_OBJ ELSE FALSE

\* the variant in which the integer 0 and the empty string are falsy too
isTruthyZeroFalsy(obj) ==
    CASE obj = NULL -> FALSE
      [] obj = TrueObject -> TRUE
      [] obj = FalseObject -> FALSE
      [] obj = Integer(0) -> FALSE
      [] obj = StringObject(<<>>) -> FALSE
      [] OTHER -> TRUE

isTruthy(obj) ==
    CASE obj = NULL -> FALSE
      [] obj = TrueObject -> TRUE
      [] obj = FalseObject -> FALSE
      [] OTHER -> TRUE

evalBangOperatorExpression(right) ==
    CASE right = TrueObject -> FalseObject
      [] right = FalseObject -> TrueObject
      [] right = NULL -> TrueObject
      [] OTHER -> FalseObject

evalMinusPrefixOperatorExpression(right) ==
    IF right = Nil THEN NilDereference
    ELSE IF right.Type # INTEGER_OBJ THEN newError("unknown operator: -" \o right.Type)
    ELSE Integer(0 - right.Value)

evalPrefixExpression(operator, right) ==
    CASE operator = "!" -> evalBangOperatorExpression(right)
      [] operator = "-" -> evalMinusPrefixOperatorExpression(right)
      [] OTHER -> IF right = Nil THEN NilDereference
                  ELSE newError("unknown operator: " \o operator \o right.Type)

\* Go's integer division: the quotient truncated toward zero
Quo(a, b) ==
    IF (a >= 0) = (b >= 0) THEN (IF a >= 0 THEN a ELSE 0 - a) \div (IF b >= 0 THEN b ELSE 0 - b)
    ELSE 0 - ((IF a >= 0 THEN a ELSE 0 - a) \div (IF b >= 0 THEN b ELSE 0 - b))

evalIntegerInfixExpression(operator, left, right) ==
    LET leftVal == left.Value
        rightVal == right.Value
    IN  CASE operator = "+" -> Integer(leftVal + rightVal)
          [] operator = "-" -> Integer(leftVal - rightVal)
          [] operator = "*" -> Integer(leftVal * rightVal)
          [] operator = "/" -> IF rightVal = 0 THEN Panic("integer divide by zero")
                               ELSE Integer(Quo(leftVal, rightVal))
          [] operator = "<" -> nativeBoolToBooleanObject(leftVal < rightVal)
          [] operator = ">" -> nativeBoolToBooleanObject(leftVal > rightVal)
          [] operator = "==" -> nativeBoolToBooleanObject(leftVal = rightVal)
          [] operator = "!=" -> nativeBoolToBooleanObject(leftVal # rightVal)
          [] OTHER -> newError("unknown operator: " \o left.Type \o " " \o operator
                               \o " " \o right.Type)

\* the variant in which == and != compare the payloads
evalStringInfixExpressionComparing(operator, left, right) ==
    CASE operator = "+" -> StringObject(left.Value \o right.Value)
      [] operator = "==" -> nativeBoolToBooleanObject(left.Value = right.Value)
      [] operator = "!=" -> nativeBoolToBooleanObject(left.Value # right.Value)
      [] OTHER -> newError("unknown operator: " \o left.Type \o " " \o operator
                           \o " " \o right.Type)

evalStringInfixExpression(operator, left, right) ==
    IF operator # "+"
    THEN newError("unknown operator: " \o left.Type \o " " \o operator \o " " \o right.Type)
    ELSE StringObject(left.Value \o right.Value)

\* left == right on two object.Object values: the same pointer
SamePointer(left, right) == left.Type = right.Type /\ left = right

\* the variant that tests the operand types before the operator
evalInfixExpressionTypesFirst(operator, left, right) ==
    IF left = Nil \/ right = Nil THEN NilDereference
    ELSE IF left.Type = INTEGER_OBJ /\ right.Type = INTEGER_OBJ
    THEN evalIntegerInfixExpression(operator, left, right)
    ELSE IF left.Type = STRING_OBJ /\ right.Type = STRING_OBJ
    THEN evalStringInfixExpression(operator, left, right)
    ELSE IF left.Type # right.Type
    THEN newError("type mismatch: " \o left.Type \o " " \o operator \o " " \o right.Type)
    ELSE IF operator = "==" THEN nativeBoolToBooleanObject(SamePointer(left, right))
    ELSE IF operator = "!=" THEN nativeBoolToBooleanObject(~SamePointer(left, right))
    ELSE newError("unknown operator: " \o left.Type \o " " \o operator \o " " \o right.Type)

\* The cases are tried in order; a case that asks a nil operand for its Type()
\* panics.
evalInfixExpression(operator, left, right) ==
    IF left = Nil THEN NilDereference
    ELSE IF left.Type \in {INTEGER_OBJ, STRING_OBJ} /\ right = Nil THEN NilDereference
    ELSE IF left.Type = INTEGER_OBJ /\ right.Type = INTEGER_OBJ
    THEN evalIntegerInfixExpression(operator, left, right)
    ELSE IF left.Type = STRING_OBJ /\ right.Type = STRING_OBJ
    THEN evalStringInfixExpression(operator, left, right)
    ELSE IF operator = "==" THEN nativeBoolToBooleanObject(SamePointer(left, right))
    ELSE IF operator = "!=" THEN nativeBoolToBooleanObject(~SamePointer(left, right))
    ELSE IF right = Nil THEN NilDereference
    ELSE IF left.Type # right.Type
    THEN newError("type mismatch: " \o left.Type \o " " \o operator \o " " \o right.Type)
    ELSE newError("unknown operator: " \o left.Type \o " " \o operator \o " " \o right.Type)

unwrapReturnValue(obj) == IF obj.Type = RETURN_VALUE_OBJ THEN obj.Value ELSE obj

Log(st, event) == [st EXCEPT !.trace = Append(@, event)]

Alloc(st) == [st EXCEPT !.nextId = @ + 1]

\* the variant that looks in the builtin table first
evalIdentifierBuiltinFirst(node, env, st) ==
    LET r == Get(st.heap, env, node.Value)
    IN  IF node.Value \in {"len", "puts", "first", "last", "rest", "push"}
        THEN Builtin(node.Value)
        ELSE IF r.ok THEN r.obj
        ELSE newError("identifier not found: " \o node.Value)

evalIdentifier(node, env, st) ==
    LET r == Get(st.heap, env, node.Value)
    IN  IF r.ok THEN r.obj
        ELSE IF node.Value \in {"len", "puts", "first", "last", "rest", "push"}
        THEN Builtin(node.Value)
        ELSE newError("identifier not found: " \o node.Value)

\* the variant in which a negative index counts from the end
evalArrayIndexExpressionWrapping(array, index) ==
    LET n == Len(array.Elements)
        idx == IF index.Value < 0 THEN n + index.Value ELSE index.Value
    IN  IF idx < 0 \/ idx > n - 1 THEN NULL ELSE array.Elements[idx + 1]

evalArrayIndexExpression(array, index) ==
    LET idx == index.Value
        max == Len(array.Elements) - 1
    IN  IF idx < 0 \/ idx > max THEN NULL ELSE array.Elements[idx + 1]

\* index.(object.Hashable) fails on a nil index, and index.Type() then panics
evalHashIndexExpression(hash, index) ==
    IF index = Nil THEN NilDereference
    ELSE IF ~Hashable(index) THEN newError("unusable as hash key: " \o index.Type)
    ELSE IF HashKey(index) \notin DOMAIN hash.Pairs THEN NULL
    ELSE hash.Pairs[HashKey(index)].Value

evalIndexExpression(left, index) ==
    IF left = Nil THEN NilDereference
    ELSE IF left.Type = ARRAY_OBJ /\ index = Nil THEN NilDereference
    ELSE IF left.Type = ARRAY_OBJ /\ index.Type = INTEGER_OBJ
    THEN evalArrayIndexExpression(left, index)
    ELSE IF left.Type = HASH_OBJ THEN evalHashIndexExpression(left, index)
    ELSE newError("index operator not supported: " \o left.Type)

wrongNumberOfArguments(got, want) ==
    newError("wrong number of arguments. got=" \o Itoa(got) \o ", want=" \o Itoa(want))

\* puts: fmt.Println(arg.Inspect()) for each argument in turn
RECURSIVE putsLoop(_, _, _)
putsLoop(args, i, st) ==
    IF i > Len(args) THEN [val |-> NULL, st |-> st]
    ELSE IF args[i] = Nil THEN [val |-> NilDereference, st |-> st]
    ELSE putsLoop(args, i + 1, [st EXCEPT !.out = Append(@, Inspect(args[i]))])

\* builtins[name].Fn(args...).  The backquotes of the messages are written as
\* apostrophes: a string here cannot hold a backquote.
builtins(name, args, st) ==
    LET only(v) == [val |-> v, st |-> st]
        arrayOnly(then) ==
            IF Len(args) # 1 THEN only(wrongNumberOfArguments(Len(args), 1))
            ELSE IF args[1] = Nil THEN only(NilDereference)
            ELSE IF args[1].Type # ARRAY_OBJ
            THEN only(newError("argument to '" \o name \o "' must be ARRAY, got "
                               \o args[1].Type))
            ELSE then
    IN  CASE name = "len" ->
                IF Len(args) # 1 THEN only(wrongNumberOfArguments(Len(args), 1))
                ELSE IF args[1] = Nil THEN only(NilDereference)
                ELSE IF args[1].Type = ARRAY_OBJ THEN only(Integer(Len(args[1].Elements)))
                ELSE IF args[1].Type = STRING_OBJ THEN only(Integer(Len(args[1].Value)))
                ELSE only(newError("argument to 'len' not supported, got " \o args[1].Type))
          [] name = "puts" -> putsLoop(args, 1, st)
          [] name = "first" ->
                arrayOnly(only(IF Len(args[1].Elements) > 0 THEN args[1].Elements[1]
                               ELSE NULL))
          [] name = "last" ->
                arrayOnly(only(IF Len(args[1].Elements) > 0
                               THEN args[1].Elements[Len(args[1].Elements)] ELSE NULL))
          [] name = "rest" ->
                arrayOnly(IF Len(args[1].Elements) > 0
                          THEN [val |-> Array(Tail(args[1].Elements), st.nextId),
                                st |-> Alloc(st)]
                          ELSE only(NULL))
          [] name = "push" ->
                IF Len(args) # 2 THEN only(wrongNumberOfArguments(Len(args), 2))
                ELSE IF args[1] = Nil THEN only(NilDereference)
                ELSE IF args[1].Type # ARRAY_OBJ
                THEN only(newError("argument to 'push' must be ARRAY, got " \o args[1].Type))
                ELSE [val |-> Array(Append(args[1].Elements, args[2]), st.nextId),
                      st |-> Alloc(st)]

\* the loop of extendFunctionEnv: args[paramIdx] panics when there is none
RECURSIVE extendLoop(_, _, _, _, _)
extendLoop(fn, args, i, env, st) ==
    IF i > Len(fn.Parameters) THEN [val |-> Nil, env |-> env, st |-> st]
    ELSE IF i > Len(args)
    THEN [val |-> Panic("index out of range"), env |-> env, st |-> st]
    ELSE extendLoop(fn, args, i + 1, env,
                    [st EXCEPT !.heap = Set(@, env, fn.Parameters[i].Value, args[i])])

extendFunctionEnvShared(fn, args, st) == extendLoop(fn, args, 1, fn.Env, st)

\* [env, st], and val: Nil or the panic
extendFunctionEnv(fn, args, st) ==
    LET r == NewEnclosedEnvironment(st.heap, fn.Env)
    IN  extendLoop(fn, args, 1, r.env, [st EXCEPT !.heap = r.heap])

\* an Error or a panic: what makes a caller return at once
Stops(obj) == IsPanic(obj) \/ isError(obj)

\* Every call of Eval from the functions below: the single point through
\* which the evaluator recurses.
RECURSIVE eval(_, _)

RECURSIVE Eval(_, _, _), evalProgramStep(_, _, _, _), evalProgramLoop(_, _, _, _, _), evalBlockLoop(_, _, _, _, _),
          evalIfExpression(_, _, _), evalExpressionsLoop(_, _, _, _, _),
          applyFunction(_, _, _), evalHashLoop(_, _, _, _, _, _)

eval(fn, args) ==
    CASE fn = "Eval" -> Eval(args[1], args[2], args[3])
      [] fn = "evalProgramStep" -> evalProgramStep(args[1], args[2], args[3], args[4])

\* one iteration of the loop of evalProgram: [val, st, stop]
evalProgramStep(statements, i, env, st) ==
    LET r == eval("Eval", <<statements[i], env,
                             Log(st, [ev |-> "statement", node |-> statements[i]])>>)
    IN  IF IsPanic(r.val) THEN [val |-> r.val, st |-> r.st, stop |-> TRUE]
        ELSE IF r.val.Type = RETURN_VALUE_OBJ
        THEN [val |-> r.val.Value, st |-> r.st, stop |-> TRUE]
        ELSE IF r.val.Type = ERROR_OBJ THEN [val |-> r.val, st |-> r.st, stop |-> TRUE]
        ELSE [val |-> r.val, st |-> r.st, stop |-> FALSE]

\* the loop of evalProgram, at statement i with the result so far
evalProgramLoop(statements, i, env, st, result) ==
    IF i > Len(statements) THEN [val |-> result, st |-> st]
    ELSE LET r == evalProgramStep(statements, i, env, st)
         IN  IF r.stop THEN [val |-> r.val, st |-> r.st]
             ELSE evalProgramLoop(statements, i + 1, env, r.st, r.val)

evalProgram(node, env, st) == evalProgramLoop(node.Statements, 1, env, st, Nil)

evalBlockLoopNoErrorCheck(statements, i, env, st, result) ==
    IF i > Len(statements) THEN [val |-> result, st |-> st]
    ELSE LET r == eval("Eval", <<statements[i], env,
                                  Log(st, [ev |-> "statement", node |-> statements[i]])>>)
         IN  IF IsPanic(r.val) THEN r
             ELSE IF r.val # Nil /\ r.val.Type = RETURN_VALUE_OBJ
             THEN r
             ELSE evalBlockLoop(statements, i + 1, env, r.st, r.val)

\* the loop of evalBlockStatement
evalBlockLoop(statements, i, env, st, result) ==
    IF i > Len(statements) THEN [val |-> result, st |-> st]
    ELSE LET r == eval("Eval", <<statements[i], env,
                                  Log(st, [ev |-> "statement", node |-> statements[i]])>>)
         IN  IF IsPanic(r.val) THEN r
             ELSE IF r.val # Nil /\ r.val.Type \in {RETURN_VALUE_OBJ, ERROR_OBJ}
             THEN r
             ELSE evalBlockLoop(statements, i + 1, env, r.st, r.val)

evalBlockStatement(block, env, st) == evalBlockLoop(block.Statements, 1, env, st, Nil)

evalIfExpression(ie, env, st) ==
    LET condition == eval("Eval", <<ie.Condition, env, st>>)
    IN  IF Stops(condition.val) THEN condition
        ELSE IF isTruthy(condition.val)
        THEN eval("Eval", <<ie.Consequence, env, condition.st>>)
        ELSE IF ie.Alternative # NilNode
        THEN eval("Eval", <<ie.Alternative, env, condition.st>>)
        ELSE [val |-> NULL, st |-> condition.st]

evalExpressionsLoopNoReturn(exps, i, env, st, result) ==
    IF i > Len(exps) THEN [list |-> result, st |-> st]
    ELSE LET evaluated == eval("Eval", <<exps[i], env, st>>)
         IN  IF IsPanic(evaluated.val)
             THEN [list |-> <<evaluated.val>>, st |-> evaluated.st]
             ELSE evalExpressionsLoop(exps, i + 1, env, evaluated.st,
                    IF result # <<>> /\ isError(result[1]) THEN result
                    ELSE IF isError(evaluated.val) THEN <<evaluated.val>>
                    ELSE Append(result, evaluated.val))

\* the variant that appends an Error to the list like any other value
evalExpressionsLoopStoring(exps, i, env, st, result) ==
    IF i > Len(exps) THEN [list |-> result, st |-> st]
    ELSE LET evaluated == eval("Eval", <<exps[i], env, st>>)
         IN  IF IsPanic(evaluated.val)
             THEN [list |-> <<evaluated.val>>, st |-> evaluated.st]
             ELSE evalExpressionsLoop(exps, i + 1, env, evaluated.st,
                                      Append(result, evaluated.val))

\* the loop of evalExpressions: [list, st]; a panic is returned like an Error
evalExpressionsLoop(exps, i, env, st, result) ==
    IF i > Len(exps) THEN [list |-> result, st |-> st]
    ELSE LET evaluated == eval("Eval", <<exps[i], env, st>>)
         IN  IF Stops(evaluated.val)
             THEN [list |-> <<evaluated.val>>, st |-> evaluated.st]
             ELSE evalExpressionsLoop(exps, i + 1, env, evaluated.st,
                                      Append(result, evaluated.val))

evalExpressions(exps, env, st) == evalExpressionsLoop(exps, 1, env, st, <<>>)

applyFunction(fn, args, st) ==
    IF fn = Nil THEN [val |-> NilDereference, st |-> st]
    ELSE IF fn.Type = FUNCTION_OBJ
    THEN LET extendedEnv == extendFunctionEnv(fn, args, Log(st, [ev |-> "apply", fn |-> fn]))
         IN  IF IsPanic(extendedEnv.val) THEN [val |-> extendedEnv.val, st |-> extendedEnv.st]
             ELSE LET evaluated == eval("Eval", <<fn.Body, extendedEnv.env, extendedEnv.st>>)
                  IN  [val |-> unwrapReturnValue(evaluated.val), st |-> evaluated.st]
    ELSE IF fn.Type = BUILTIN_OBJ
    THEN builtins(fn.Fn, args, Log(st, [ev |-> "apply", fn |-> fn]))
    ELSE [val |-> newError("not a function: " \o fn.Type), st |-> st]

\* The order in which a range over a Go map of n entries visits them is not
\* specified: st.order[n] is the order this run takes, the entries numbered
\* as they were put in.
RangeOrder(st, n) == IF n <= 1 THEN [i \in 1 .. n |-> i] ELSE st.order[n]

\* the loop of evalHashLiteral, at the i-th pair of the range
evalHashLoop(nodePairs, order, i, env, st, pairs) ==
    IF i > Len(order) THEN [val |-> Hash(pairs, st.nextId), st |-> Alloc(st)]
    ELSE LET keyNode == nodePairs[order[i]][1]
             valueNode == nodePairs[order[i]][2]
             key == eval("Eval", <<keyNode, env, st>>)
         IN  IF Stops(key.val) THEN key
             ELSE IF key.val = Nil THEN [val |-> NilDereference, st |-> key.st]
             ELSE IF ~Hashable(key.val)
             THEN [val |-> newError("unusable as hash key: " \o key.val.Type), st |-> key.st]
             ELSE LET value == eval("Eval", <<valueNode, env, key.st>>)
                  IN  IF Stops(value.val) THEN value
                      ELSE evalHashLoop(nodePairs, order, i + 1, env, value.st,
                             (HashKey(key.val) :> HashPair(key.val, value.val)) @@ pairs)

evalHashLiteral(node, env, st) ==
    evalHashLoop(node.Pairs, RangeOrder(st, Len(node.Pairs)), 1, env, st,
                 [k \in {} |-> Nil])

\* Eval: [val, st]
Eval(node, env, st) ==
    LET k == node.kind
        only(v) == [val |-> v, st |-> st]
    IN  CASE k = "Program" -> evalProgram(node, env, st)
          [] k = "BlockStatement" -> evalBlockStatement(node, env, st)
          [] k = "ExpressionStatement" -> eval("Eval", <<node.Expression, env, st>>)
          [] k = "ReturnStatement" ->
                LET r == eval("Eval", <<node.ReturnValue, env, st>>)
                IN  IF Stops(r.val) THEN r
                    ELSE [val |-> ReturnValue(r.val, r.st.nextId), st |-> Alloc(r.st)]
          [] k = "LetStatement" ->
                LET r == eval("Eval", <<node.Value, env, st>>)
                IN  IF Stops(r.val) THEN r
                    ELSE [val |-> Nil,
                          st |-> [r.st EXCEPT !.heap = Set(@, env, node.Name.Value, r.val)]]
          [] k = "(*ast.LetStatement)(nil)" -> only(NilDereference)
          [] k = "IntegerLiteral" -> only(Integer(node.Value))
          [] k = "StringLiteral" -> only(StringObject(node.Value))
          [] k = "Boolean" -> only(nativeBoolToBooleanObject(node.Value))
          [] k = "PrefixExpression" ->
                LET right == eval("Eval", <<node.Right, env, st>>)
                IN  IF Stops(right.val) THEN right
                    ELSE [val |-> evalPrefixExpression(node.Operator, right.val),
                          st |-> right.st]
          [] k = "InfixExpression" ->
                LET left == eval("Eval", <<node.Left, env, st>>)
                IN  IF Stops(left.val) THEN left
                    ELSE LET right == eval("Eval", <<node.Right, env, left.st>>)
                         IN  IF Stops(right.val) THEN right
                             ELSE [val |-> evalInfixExpression(node.Operator, left.val,
                                                               right.val),
                                   st |-> right.st]
          [] k = "IfExpression" -> evalIfExpression(node, env, st)
          [] k = "Identifier" -> only(evalIdentifier(node, env, st))
          [] k = "FunctionLiteral" ->
                [val |-> Function(node.Parameters, node.Body, env, st.nextId),
                 st |-> Alloc(st)]
          [] k = "CallExpression" ->
                LET function == eval("Eval", <<node.Function, env, st>>)
                IN  IF Stops(function.val) THEN function
                    ELSE LET args == evalExpressions(node.Arguments, env, function.st)
                         IN  IF Len(args.list) = 1 /\ Stops(args.list[1])
                             THEN [val |-> args.list[1], st |-> args.st]
                             ELSE applyFunction(function.val, args.list, args.st)
          [] k = "ArrayLiteral" ->
                LET elements == evalExpressions(node.Elements, env, st)
                IN  IF Len(elements.list) = 1 /\ Stops(elements.list[1])
                    THEN [val |-> elements.list[1], st |-> elements.st]
                    ELSE [val |-> Array(elements.list, elements.st.nextId),
                          st |-> Alloc(elements.st)]
          [] k = "IndexExpression" ->
                LET left == eval("Eval", <<node.Left, env, st>>)
                IN  IF Stops(left.val) THEN left
                    ELSE LET index == eval("Eval", <<node.Index, env, left.st>>)
                         IN  IF Stops(index.val) THEN index
                             ELSE [val |-> evalIndexExpression(left.val, index.val),
                                   st |-> index.st]
          [] k = "HashLiteral" -> evalHashLiteral(node, env, st)
          [] k = "nil" -> only(Nil)

\* the evaluator's state when the REPL starts: env := object.NewEnvironment()
NewState ==
    [heap |-> NewEnvironment(<<>>).heap, out |-> <<>>, trace |-> <<>>, nextId |-> 1,
     order |-> <<>>]

(***************************************************************************)
(* Syntax trees written directly: the node ParseProgram builds for the     *)
(* text, with the token each parse function stores in it.                  *)
(***************************************************************************)
Ident(name) == Identifier(Token(IDENT, Chars(name)))

IntLit(n) == IntegerLiteral(Token(INT, <<Itoa(n)>>), n)

Bool(b) ==
    IF b THEN BooleanNode(Token(TRUE_, Chars("true")), TRUE)
    ELSE BooleanNode(Token(FALSE_, Chars("false")), FALSE)

StrLit(cs) == StringLiteral(Token(STRING_, cs))

Prefix(op, right) ==
    PrefixExpression(Token(IF op = "!" THEN BANG ELSE MINUS, <<op>>), right)

Infix(left, op, right) ==
    InfixExpression(Token(NextToken(New(Chars(op))).tok.Type, Chars(op)), left, right)

Block(statements) == BlockStatement(Token(LBRACE, <<"{">>), statements)

IfThen(condition, consequence) ==
    IfExpression(Token(IF_, Chars("if")), condition, Block(consequence), NilNode)

IfElse(condition, consequence, alternative) ==
    IfExpression(Token(IF_, Chars("if")), condition, Block(consequence), Block(alternative))

Fn(parameters, body) ==
    FunctionLiteral(Token(FUNCTION, Chars("fn")),
                    [i \in 1..Len(parameters) |-> Ident(parameters[i])], Block(body))

Call(function, arguments) == CallExpression(Token(LPAREN, <<"(">>), function, arguments)

Arr(elements) == ArrayLiteral(Token(LBRACKET, <<"[">>), elements)

Index(left, index) == IndexExpression(Token(LBRACKET, <<"[">>), left, index)

\* pairs: the <<key, value>> pairs in source order
HashLit(pairs) == HashLiteral(Token(LBRACE, <<"{">>), pairs)

\* the token an expression starts with: the one parseExpressionStatement stores
RECURSIVE FirstToken(_)
FirstToken(e) ==
    CASE e.kind = "InfixExpression" -> FirstToken(e.Left)
      [] e.kind = "CallExpression" -> FirstToken(e.Function)
      [] e.kind = "IndexExpression" -> FirstToken(e.Left)
      [] OTHER -> e.Token

ExprStmt(e) == ExpressionStatement(FirstToken(e), e)

Let(name, value) == LetStatement(Token(LET_, Chars("let")), Ident(name), value)

Return(value) == ReturnStatement(Token(RETURN, Chars("return")), value)

\* puts(n);
Puts(n) == ExprStmt(Call(Ident("puts"), <<IntLit(n)>>))

(***************************************************************************)
(* Evaluating a program: Eval(program, env) with the environment the REPL  *)
(* creates, one iteration of evalProgram's loop per step.                  *)
(***************************************************************************)
TopEnv == NewEnvironment(<<>>).env

EvalStart(statements, sh) ==
    /\ input = <<>>
    /\ parser = <<>>
    /\ program = statements
    /\ pc = 1
    /\ evst = NewState
    /\ evres = Nil
    /\ shape = sh
    /\ out = <<>>
    /\ LexIdle /\ EnvIdle

\* the same start, for a program whose ranges over a map of Len(perm) entries
\* take the order perm
EvalStartOrdered(statements, sh, perm) ==
    /\ input = <<>>
    /\ parser = <<>>
    /\ program = statements
    /\ pc = 1
    /\ evst = [NewState EXCEPT !.order = [n \in {Len(perm)} |-> perm]]
    /\ evres = Nil
    /\ shape = sh
    /\ out = <<>>
    /\ LexIdle /\ EnvIdle

\* the orders a range over a map of n entries can take
RangeOrders(n) ==
    {p \in [1 .. n -> 1 .. n] : \A i, j \in 1 .. n : i # j => p[i] # p[j]}

EvalStep ==
    /\ pc > 0
    /\ \E r \in {eval("evalProgramStep", <<program, pc, TopEnv, evst>>)} :
          /\ evst' = r.st
          /\ evres' = r.val
          /\ pc' = IF r.stop \/ pc = Len(program) THEN 0 ELSE pc + 1
    /\ UNCHANGED <<input, LexVars, EnvVars, parser, program, shape, out>>

EvalNext == EvalStep

Finished == pc = 0

(***************************************************************************)
(* SpecReturn: programs in which `return x` stands inside depth nested     *)
(* if-blocks, in a function body or at the top level.  Each block goes on  *)
(* with puts(9) after the statement that holds the next block; the if of   *)
(* level `at` is the value of a let, of a return or of a prefix operator,  *)
(* the others are statements.  The caller of the function goes on with     *)
(* puts(8).                                                                *)
(***************************************************************************)
MaxDepth == 2

Places == {"statement", "let", "return", "operand"}

RECURSIVE Nest(_, _)
Nest(sh, level) ==
    IF level > sh.depth THEN <<Return(IntLit(sh.x))>>
    ELSE LET inner == Nest(sh, level + 1) \o <<Puts(9)>>
             ifx == IF sh.conds[level] = "then" THEN IfThen(Bool(TRUE), inner)
                    ELSE IfElse(Bool(FALSE), <<Puts(9)>>, inner)
             place == IF sh.at = level THEN sh.place ELSE "statement"
         IN  CASE place = "statement" -> <<ExprStmt(ifx)>>
               [] place = "let" -> <<Let("y", ifx)>>
               [] place = "return" -> <<Return(ifx)>>
               [] place = "operand" -> <<ExprStmt(Prefix("!", ifx))>>

\* let f = fn() { BODY puts(9); 7 }; let r = f(); puts(8); r     or BODY alone
ReturnProgram(sh) ==
    LET body == Nest(sh, 1) \o <<Puts(9), ExprStmt(IntLit(7))>>
    IN  IF sh.top = "fn"
        THEN <<Let("f", Fn(<<>>, body)), Let("r", Call(Ident("f"), <<>>)), Puts(8),
               ExprStmt(Ident("r"))>>
        ELSE body

ReturnInit ==
    \E top \in {"fn", "program"}, depth \in 0..MaxDepth, x \in {1, 2}, place \in Places :
    \E conds \in [1..depth -> {"then", "else"}],
       at \in IF depth = 0 \/ place = "statement" THEN {0} ELSE 1..depth :
       LET sh == [top |-> top, depth |-> depth, x |-> x, place |-> place,
                  conds |-> conds, at |-> at]
       IN  (depth > 0 \/ place = "statement") /\ EvalStart(ReturnProgram(sh), sh)

SpecReturn == ReturnInit /\ [][EvalNext]_vars

\* C1: when the program has run, the `return x` has made x itself the value
\* of the call (bound to r) and the caller has gone on, or has made x the
\* result of the program; nothing after the return in any enclosing block
\* was evaluated, so no puts(9) wrote its line.
ReturnUnwrapping ==
    Finished =>
        LET x == Integer(shape.x)
        IN  /\ evres = x
            /\ IF shape.top = "fn"
               THEN /\ Get(evst.heap, TopEnv, "r") = [obj |-> x, ok |-> TRUE]
                    /\ evst.out = <<"8">>
               ELSE evst.out = <<>>

(***************************************************************************)
(* SpecClosure: the adder programs.  n takes x and gives back a function   *)
(* of y that adds y to x, or to a local k of n that holds x; it gives it   *)
(* back as its last expression or through `return`.  a and b come from two *)
(* calls of n.  The top level binds x and k itself, and the calls whose    *)
(* values are bound to p, q and s are made at the top level or inside a    *)
(* function whose own x and k hold the argument.  Last, h names a w that   *)
(* only its caller binds.                                                  *)
(*                                                                         *)
(*   let x = g; let k = g;                                                 *)
(*   let n = fn(x) { fn(y) { x + y } };                                    *)
(*   let a = n(A); let b = n(B);                                           *)
(*   let p = a(Y); let q = b(Y); let s = a(Y);                             *)
(*   let h = fn() { w }; fn(w) { h() }(Y)                                  *)
(***************************************************************************)
MaxValue == 2

Values == 1..MaxValue

AdderBody(sh) ==
    LET free == IF sh.local THEN "k" ELSE "x"
        adder == Fn(<<"y">>, <<ExprStmt(Infix(Ident(free), "+", Ident("y")))>>)
        last == IF sh.ret THEN Return(adder) ELSE ExprStmt(adder)
    IN  IF sh.local THEN <<Let("k", Ident("x")), last>> ELSE <<last>>

CallAt(sh, name) ==
    IF sh.site = "top" THEN Call(Ident(name), <<IntLit(sh.y)>>)
    ELSE Call(Fn(<<"x", "k">>, <<ExprStmt(Call(Ident(name), <<Ident("x")>>))>>),
              <<IntLit(sh.y), IntLit(sh.y)>>)

ClosureProgram(sh) ==
    <<Let("x", IntLit(sh.g)), Let("k", IntLit(sh.g)),
      Let("n", Fn(<<"x">>, AdderBody(sh))),
      Let("a", Call(Ident("n"), <<IntLit(sh.a)>>)),
      Let("b", Call(Ident("n"), <<IntLit(sh.b)>>)),
      Let("p", CallAt(sh, "a")), Let("q", CallAt(sh, "b")), Let("s", CallAt(sh, "a")),
      Let("h", Fn(<<>>, <<ExprStmt(Ident("w"))>>)),
      ExprStmt(Call(Fn(<<"w">>, <<ExprStmt(Call(Ident("h"), <<>>))>>), <<IntLit(sh.y)>>))>>

ClosureInit ==
    \E a \in Values, b \in Values, y \in Values, g \in Values,
       local \in BOOLEAN, ret \in BOOLEAN, site \in {"top", "fn"} :
       LET sh == [a |-> a, b |-> b, y |-> y, g |-> g, local |-> local, ret |-> ret,
                  site |-> site]
       IN  EvalStart(ClosureProgram(sh), sh)

SpecClosure == ClosureInit /\ [][EvalNext]_vars

Bound(name) == Get(evst.heap, TopEnv, name)

\* C2: each call of a function that n returned adds its argument to the x of
\* the call of n that made it: p and s are A + Y and q is B + Y, whatever x
\* and k are at the call site and whatever the other call of n was given;
\* h does not find the w of its caller.
LexicalClosures ==
    Finished =>
        /\ evres = newError("identifier not found: w")
        /\ Bound("p") = [obj |-> Integer(shape.a + shape.y), ok |-> TRUE]
        /\ Bound("q") = [obj |-> Integer(shape.b + shape.y), ok |-> TRUE]
        /\ Bound("s") = [obj |-> Integer(shape.a + shape.y), ok |-> TRUE]

LexicalClosuresWitness ==
    /\ Finished
    /\ shape.site = "fn" /\ shape.local /\ shape.ret
    /\ shape.a = 1 /\ shape.b = 2 /\ shape.y = 2 /\ shape.g = 2
    /\ Bound("p").obj = Integer(3) /\ Bound("q").obj = Integer(4)
    /\ Bound("x").obj = Integer(2)
    /\ evres.Type = ERROR_OBJ

(***************************************************************************)
(* SpecError: an expression whose evaluation yields an Error, inside up to *)
(* MaxNest constructs, in the program                                      *)
(*                                                                         *)
(*   puts(1); STATEMENT; puts(9)                                           *)
(*                                                                         *)
(* Every block and function body goes on with puts(9) after the statement  *)
(* that holds the expression.                                              *)
(***************************************************************************)
MaxNest == 2

Failing ==
    {"mismatch", "negate", "unbound", "builtin", "notfn", "noindex"}

FailingExpr(e) ==
    CASE e = "mismatch" -> Infix(IntLit(1), "+", Bool(TRUE))
      [] e = "negate" -> Prefix("-", Bool(TRUE))
      [] e = "unbound" -> Ident("u")
      [] e = "builtin" -> Call(Ident("len"), <<IntLit(1)>>)
      [] e = "notfn" -> Call(IntLit(1), <<>>)
      [] e = "noindex" -> Index(IntLit(1), IntLit(0))

\* the message of the Error the expression yields
FailingMessage(e) ==
    CASE e = "mismatch" -> "type mismatch: INTEGER + BOOLEAN"
      [] e = "negate" -> "unknown operator: -BOOLEAN"
      [] e = "unbound" -> "identifier not found: u"
      [] e = "builtin" -> "argument to 'len' not supported, got INTEGER"
      [] e = "notfn" -> "not a function: INTEGER"
      [] e = "noindex" -> "index operator not supported: INTEGER"

Contexts ==
    {"bang", "minus", "left", "right", "cond", "indexed", "index", "then", "else",
     "blocklet", "blockreturn", "body", "bodylet", "bodyreturn", "callee", "argument",
     "element"}

\* the expression e inside one construct
Around(c, e) ==
    CASE c = "bang" -> Prefix("!", e)
      [] c = "minus" -> Prefix("-", e)
      [] c = "left" -> Infix(e, "+", IntLit(1))
      [] c = "right" -> Infix(IntLit(1), "+", e)
      [] c = "cond" -> IfElse(e, <<Puts(9)>>, <<Puts(9)>>)
      [] c = "indexed" -> Index(e, IntLit(0))
      [] c = "index" -> Index(Arr(<<IntLit(1)>>), e)
      [] c = "then" -> IfThen(Bool(TRUE), <<ExprStmt(e), Puts(9)>>)
      [] c = "else" -> IfElse(Bool(FALSE), <<Puts(9)>>, <<ExprStmt(e), Puts(9)>>)
      [] c = "blocklet" -> IfThen(Bool(TRUE), <<Let("y", e), Puts(9)>>)
      [] c = "blockreturn" -> IfThen(Bool(TRUE), <<Return(e), Puts(9)>>)
      [] c = "body" -> Call(Fn(<<>>, <<ExprStmt(e), Puts(9)>>), <<>>)
      [] c = "bodylet" -> Call(Fn(<<>>, <<Let("y", e), Puts(9)>>), <<>>)
      [] c = "bodyreturn" -> Call(Fn(<<>>, <<Return(e), Puts(9)>>), <<>>)
      [] c = "callee" -> Call(e, <<IntLit(1)>>)
      [] c = "argument" -> Call(Ident("puts"), <<e>>)
      [] c = "element" -> Arr(<<e>>)

\* constructs[1] is the outermost
RECURSIVE Nested(_, _)
Nested(constructs, e) ==
    IF constructs = <<>> THEN e
    ELSE Around(constructs[1], Nested(Tail(constructs), e))

ErrorProgram(sh) ==
    LET e == Nested(sh.constructs, FailingExpr(sh.e))
        statement == CASE sh.top = "statement" -> ExprStmt(e)
                       [] sh.top = "let" -> Let("y", e)
                       [] sh.top = "return" -> Return(e)
    IN  <<Puts(1), statement, Puts(9)>>

ErrorInit ==
    \E e \in Failing, top \in {"statement", "let", "return"}, n \in 0..MaxNest :
    \E constructs \in [1..n -> Contexts] :
       LET sh == [e |-> e, top |-> top, constructs |-> constructs]
       IN  EvalStart(ErrorProgram(sh), sh)

SpecError == ErrorInit /\ [][EvalNext]_vars

\* C3: the Error the expression yields is the result of the program, and of
\* the statements after it, in its block, in the function body and in the
\* program, none was evaluated: the only line written is that of puts(1).
ErrorPropagation ==
    Finished =>
        /\ evres = newError(FailingMessage(shape.e))
        /\ evst.out = <<"1">>
        /\ \A i \in 1..Len(evst.trace) :
              evst.trace[i] # [ev |-> "statement", node |-> Puts(9)]

ErrorPropagationWitness ==
    /\ Finished
    /\ shape.e = "mismatch" /\ shape.top = "let"
    /\ shape.constructs = <<"bodyreturn", "cond">>
    /\ evres = newError("type mismatch: INTEGER + BOOLEAN")
    /\ evst.out = <<"1">>

(***************************************************************************)
(* SpecList: a list of up to MaxElems expressions as the arguments of a    *)
(* call of the function f, as the arguments of a call of the builtin puts, *)
(* or as the elements of an array literal, in the program                  *)
(*                                                                         *)
(*   let t = fn(v) { puts(v); v }; let f = fn() { puts(0) };               *)
(*   let r = f(E1, .., En);            or puts(E1, .., En), [E1, .., En]   *)
(*   puts(9)                                                               *)
(*                                                                         *)
(* Element i is t(i), which writes the line i; or a name nothing binds,    *)
(* which yields an Error; or t(i) + that name, which writes the line and   *)
(* then yields the Error.                                                  *)
(***************************************************************************)
MaxElems == 3

ElemKinds == {"value", "error", "late"}

Unbound == <<"u", "v", "w", "z", "o">>

Elem(kind, i) ==
    CASE kind = "value" -> Call(Ident("t"), <<IntLit(i)>>)
      [] kind = "error" -> Ident(Unbound[i])
      [] kind = "late" -> Infix(Call(Ident("t"), <<IntLit(i)>>), "+", Ident(Unbound[i]))

Elems(sh) == [i \in 1..Len(sh.kinds) |-> Elem(sh.kinds[i], i)]

ListProgram(sh) ==
    LET list == CASE sh.holder = "call" -> Call(Ident("f"), Elems(sh))
                  [] sh.holder = "builtin" -> Call(Ident("puts"), Elems(sh))
                  [] sh.holder = "array" -> Arr(Elems(sh))
    IN  <<Let("t", Fn(<<"v">>, <<ExprStmt(Call(Ident("puts"), <<Ident("v")>>)),
                                 ExprStmt(Ident("v"))>>)),
          Let("f", Fn(<<>>, <<Puts(0)>>)),
          Let("r", list),
          Puts(9)>>

ListInit ==
    \E holder \in {"call", "builtin", "array"}, n \in 0..MaxElems :
    \E kinds \in [1..n -> ElemKinds] :
       LET sh == [holder |-> holder, kinds |-> kinds]
       IN  EvalStart(ListProgram(sh), sh)

SpecList == ListInit /\ [][EvalNext]_vars

\* the first element that yields an Error, or 0
FirstError(kinds) ==
    IF \E i \in 1..Len(kinds) : kinds[i] # "value"
    THEN CHOOSE i \in 1..Len(kinds) :
            kinds[i] # "value" /\ \A j \in 1..(i - 1) : kinds[j] = "value"
    ELSE 0

Lines(n) == [i \in 1..n |-> Itoa(i)]

\* how many times a function value with this many parameters was applied
Applied(parameters) ==
    Cardinality({i \in 1..Len(evst.trace) :
        /\ evst.trace[i].ev = "apply"
        /\ evst.trace[i].fn.Type = FUNCTION_OBJ
        /\ Len(evst.trace[i].fn.Parameters) = parameters})

\* C4: with element j the first to yield an Error, the elements before j
\* were evaluated in order (and j itself as far as its error), no later one
\* was, f or puts was not applied and no array was built, and the Error of
\* element j is the result; with no Error every element was evaluated in
\* order and then the function was applied.
ListShortCircuit ==
    Finished =>
        LET kinds == shape.kinds
            j == FirstError(kinds)
            seen == IF j = 0 THEN Len(kinds)
                    ELSE IF kinds[j] = "late" THEN j ELSE j - 1
        IN  IF j # 0
            THEN /\ evres = newError("identifier not found: " \o Unbound[j])
                 /\ evst.out = Lines(seen)
                 /\ Applied(1) = seen
                 /\ Applied(0) = 0
                 /\ ~Bound("r").ok
                 /\ evst.nextId = 3
            ELSE /\ evst.out = Lines(seen)
                        \o (CASE shape.holder = "call" -> <<"0">>
                              [] shape.holder = "builtin" -> Lines(seen)
                              [] shape.holder = "array" -> <<>>)
                        \o <<"9">>
                 /\ Applied(1) = seen
                 /\ Applied(0) = IF shape.holder = "call" THEN 1 ELSE 0
                 /\ Bound("r").ok

ListShortCircuitWitness ==
    /\ Finished
    /\ shape.holder = "call"
    /\ shape.kinds = <<"value", "late", "value">>
    /\ evres = newError("identifier not found: v")
    /\ evst.out = <<"1", "2">>

(***************************************************************************)
(* C13.  SpecInfix: one infix expression, every operator between every two *)
(* operands of OperandKinds, after                                         *)
(*     let a = [1]; let f = fn(x) { x };                                   *)
(***************************************************************************)
InfixOperators == {"+", "-", "*", "/", "<", ">", "==", "!="}

OperandKinds ==
    {"one", "two", "sa", "sb", "true", "false", "not", "less", "null", "array",
     "a", "f", "fn", "len", "return", "none"}

Operand(k) ==
    CASE k = "one" -> IntLit(1)
      [] k = "two" -> IntLit(2)
      [] k = "sa" -> StrLit(<<"a">>)
      [] k = "sb" -> StrLit(<<"b">>)
      [] k = "true" -> Bool(TRUE)
      [] k = "false" -> Bool(FALSE)
      [] k = "not" -> Prefix("!", Bool(TRUE))
      [] k = "less" -> Infix(IntLit(1), "<", IntLit(2))
      [] k = "null" -> IfThen(Bool(FALSE), <<ExprStmt(IntLit(1))>>)
      [] k = "array" -> Arr(<<IntLit(1)>>)
      [] k = "a" -> Ident("a")
      [] k = "f" -> Ident("f")
      [] k = "fn" -> Fn(<<>>, <<ExprStmt(IntLit(1))>>)
      [] k = "len" -> Ident("len")
      [] k = "return" -> IfThen(Bool(TRUE), <<Return(IntLit(1))>>)
      [] k = "none" -> Call(Fn(<<>>, <<>>), <<>>)

InfixProgram(sh) ==
    <<Let("a", Arr(<<IntLit(1)>>)),
      Let("f", Fn(<<"x">>, <<ExprStmt(Ident("x"))>>)),
      ExprStmt(Infix(Operand(sh.left), sh.op, Operand(sh.right)))>>

InfixInit ==
    \E left \in OperandKinds, op \in InfixOperators, right \in OperandKinds :
       LET sh == [left |-> left, op |-> op, right |-> right]
       IN  EvalStart(InfixProgram(sh), sh)

SpecInfix == InfixInit /\ [][EvalNext]_vars

\* the Type() of the value an operand evaluates to; the call of a function
\* with an empty body yields no object at all
OperandType(k) ==
    CASE k \in {"one", "two"} -> "INTEGER"
      [] k \in {"sa", "sb"} -> "STRING"
      [] k \in {"true", "false", "not", "less"} -> "BOOLEAN"
      [] k = "null" -> "NULL"
      [] k \in {"array", "a"} -> "ARRAY"
      [] k \in {"f", "fn"} -> "FUNCTION"
      [] k = "len" -> "BUILTIN"
      [] k = "return" -> "RETURN_VALUE"
      [] k = "none" -> "none"

\* the payload of an operand that is a boolean
OperandPayload(k) == k \in {"true", "less"}

\* the two operands are one and the same value: booleans of equal payload,
\* null and null, the same bound array or function, the same builtin
Identical(kl, kr) ==
    IF OperandType(kl) = "BOOLEAN" /\ OperandType(kr) = "BOOLEAN"
    THEN OperandPayload(kl) = OperandPayload(kr)
    ELSE kl = kr /\ kl \in {"null", "a", "f", "len"}

\* C13: when the two operands are values that are not both Integer and not
\* both String, == yields true exactly when they are the same value by
\* identity and != yields the negation (values of two different kinds are
\* never ==, two booleans are == exactly when their payloads are equal, and
\* the result is never an Error); every other operator yields the Error
\* type mismatch: <L> <op> <R> for operands of different types and
\* unknown operator: <L> <op> <R> for operands of the same type.
InfixDispatch ==
    LET L == OperandType(shape.left)
        R == OperandType(shape.right)
    IN  (/\ Finished
         /\ L # "none" /\ R # "none"
         /\ ~(L = "INTEGER" /\ R = "INTEGER")
         /\ ~(L = "STRING" /\ R = "STRING")) =>
            evres =
                CASE shape.op = "==" ->
                        [Type |-> "BOOLEAN", Value |-> Identical(shape.left, shape.right)]
                  [] shape.op = "!=" ->
                        [Type |-> "BOOLEAN", Value |-> ~Identical(shape.left, shape.right)]
                  [] OTHER ->
                        [Type |-> "ERROR",
                         Message |-> (IF L # R THEN "type mismatch: " ELSE "unknown operator: ")
                                     \o L \o " " \o shape.op \o " " \o R]

\* (1 < 2) == true has been evaluated to true
InfixDispatchWitness ==
    /\ Finished
    /\ shape.left = "less" /\ shape.op = "==" /\ shape.right = "true"
    /\ evres = TrueObject

\* 1 == true is false, "a" != null is true, true + false and a - 1 are Errors
InfixDispatchWitnessMixed ==
    /\ Finished
    /\ \/ shape = [left |-> "one", op |-> "==", right |-> "true"] /\ evres = FalseObject
       \/ shape = [left |-> "true", op |-> "+", right |-> "false"]
            /\ evres = Error("unknown operator: BOOLEAN + BOOLEAN")

(***************************************************************************)
(* C14.  SpecString: let s = X; s <op> Y for every operator and every two  *)
(* strings X, Y of at most MaxStrLen characters.                           *)
(***************************************************************************)
MaxStrLen == 2

StringInit ==
    \E left \in SeqsUpTo({"a", "b"}, MaxStrLen), op \in InfixOperators,
       right \in SeqsUpTo({"a", "b"}, MaxStrLen) :
       EvalStart(<<Let("s", StrLit(left)), ExprStmt(Infix(Ident("s"), op, StrLit(right)))>>,
                 [left |-> left, op |-> op, right |-> right])

SpecString == StringInit /\ [][EvalNext]_vars

\* C14: for two String operands + yields the String whose payload is the left
\* payload followed by the right payload, and every other infix operator, ==
\* and != included, yields the Error unknown operator: STRING <op> STRING,
\* never a Boolean.
StringOperators ==
    Finished =>
        IF shape.op = "+"
        THEN evres = [Type |-> "STRING", Value |-> shape.left \o shape.right]
        ELSE evres = [Type |-> "ERROR",
                      Message |-> "unknown operator: STRING " \o shape.op \o " STRING"]

\* "ab" == "ab" has yielded the Error, "a" + "ba" the string "aba"
StringOperatorsWitness ==
    /\ Finished
    /\ \/ /\ shape = [left |-> <<"a", "b">>, op |-> "==", right |-> <<"a", "b">>]
          /\ evres = Error("unknown operator: STRING == STRING")
       \/ /\ shape = [left |-> <<"a">>, op |-> "+", right |-> <<"b", "a">>]
          /\ evres = StringObject(<<"a", "b", "a">>)

(***************************************************************************)
(* C15.  SpecTruthy: a value of every kind, negated, negated twice, and as *)
(* the condition of an if with or without alternative:                     *)
(*     let a = [1]; let f = fn(x) { x }; let v = V;                        *)
(*     let n = !v; let nn = !!v; let d = !V;                               *)
(*     let r = if (v) { 1 } else { 2 };    or    let r = if (V) { 1 };     *)
(***************************************************************************)
TruthyKinds ==
    OperandKinds \cup {"zero", "negative", "empty", "noelements", "nopairs", "hash"}

TruthyOperand(k) ==
    CASE k = "zero" -> IntLit(0)
      [] k = "negative" -> Prefix("-", IntLit(1))
      [] k = "empty" -> StrLit(<<>>)
      [] k = "noelements" -> Arr(<<>>)
      [] k = "nopairs" -> HashLit(<<>>)
      [] k = "hash" -> HashLit(<<<<IntLit(0), Bool(FALSE)>>>>)
      [] OTHER -> Operand(k)

TruthyProgram(sh) ==
    <<Let("a", Arr(<<IntLit(1)>>)),
      Let("f", Fn(<<"x">>, <<ExprStmt(Ident("x"))>>)),
      Let("v", TruthyOperand(sh.kind)),
      Let("n", Prefix("!", Ident("v"))),
      Let("nn", Prefix("!", Prefix("!", Ident("v")))),
      Let("d", Prefix("!", TruthyOperand(sh.kind))),
      Let("r", CASE sh.form = "else" ->
                      IfElse(Ident("v"), <<ExprStmt(IntLit(1))>>, <<ExprStmt(IntLit(2))>>)
                 [] sh.form = "noelse" ->
                      IfThen(TruthyOperand(sh.kind), <<ExprStmt(IntLit(1))>>))>>

TruthyInit ==
    \E kind \in TruthyKinds, form \in {"else", "noelse"} :
       LET sh == [kind |-> kind, form |-> form]
       IN  EvalStart(TruthyProgram(sh), sh)

SpecTruthy == TruthyInit /\ [][EvalNext]_vars

\* the kinds of value that are false or null
Falsy(k) == k \in {"false", "not", "null"}

\* C15: every value is truthy or falsy and the only falsy values are false
\* and null (0, the empty string, the empty array and the empty hash are
\* truthy); !v is true exactly when v is falsy, !!v is the truthiness of v,
\* and an if takes its consequence exactly when its condition is truthy.
Truthiness ==
    Finished =>
        /\ Bound("n") = [obj |-> [Type |-> "BOOLEAN", Value |-> Falsy(shape.kind)],
                         ok |-> TRUE]
        /\ Bound("d") = Bound("n")
        /\ Bound("nn") = [obj |-> [Type |-> "BOOLEAN", Value |-> ~Falsy(shape.kind)],
                          ok |-> TRUE]
        /\ Bound("r").ok
        /\ Bound("r").obj =
              IF ~Falsy(shape.kind) THEN Integer(1)
              ELSE IF shape.form = "else" THEN Integer(2)
              ELSE NULL

\* 0, "", [] and {} have been found truthy
TruthinessWitness ==
    /\ Finished
    /\ shape.kind \in {"zero", "empty", "noelements", "nopairs"}
    /\ Bound("v").obj.Type \in {"INTEGER", "STRING", "ARRAY", "HASH"}
    /\ Bound("n").obj = FalseObject
    /\ Bound("nn").obj = TrueObject
    /\ Bound("r").obj = Integer(1)

\* null has been found falsy by an if without alternative
TruthinessWitnessNull ==
    /\ Finished
    /\ shape = [kind |-> "null", form |-> "noelse"]
    /\ Bound("n").obj = TrueObject
    /\ Bound("r").obj = NULL

(***************************************************************************)
(* C16.  SpecIndex: let a = [5, 6, ...]; let r = a[I]; a  for every array  *)
(* of at most MaxElems elements and every index from -MaxIndex to          *)
(* MaxIndex.                                                               *)
(***************************************************************************)
MaxIndex == 4

IntExpr(i) == IF i < 0 THEN Prefix("-", IntLit(0 - i)) ELSE IntLit(i)

\* the k-th element of the array
ElementAt(k) == 4 + k

IndexProgram(sh) ==
    <<Let("a", Arr([k \in 1 .. sh.n |-> IntLit(ElementAt(k))])),
      Let("r", Index(Ident("a"), IntExpr(sh.i))),
      ExprStmt(Ident("a"))>>

IndexInit ==
    \E n \in 0 .. MaxElems, i \in (0 - MaxIndex) .. MaxIndex :
       LET sh == [n |-> n, i |-> i]
       IN  EvalStart(IndexProgram(sh), sh)

SpecIndex == IndexInit /\ [][EvalNext]_vars

\* C16: for an array a of n elements and an integer i, a[i] is the element at
\* position i (from 0) when 0 <= i < n and null for every other i (negative,
\* n, larger, and any i when n = 0); no index makes the evaluator panic, and
\* the array has the same elements afterwards.
ArrayIndexing ==
    /\ ~IsPanic(evres)
    /\ Finished =>
          /\ Bound("r").ok
          /\ Bound("r").obj =
                IF 0 <= shape.i /\ shape.i < shape.n
                THEN [Type |-> "INTEGER", Value |-> ElementAt(shape.i + 1)]
                ELSE [Type |-> "NULL"]
          /\ evres.Type = "ARRAY"
          /\ evres.Elements =
                [k \in 1 .. shape.n |-> [Type |-> "INTEGER", Value |-> ElementAt(k)]]
          /\ Bound("a").obj = evres

\* the last element has been read, and null at the index equal to the length
ArrayIndexingWitness ==
    /\ Finished
    /\ shape.n = 3
    /\ \/ shape.i = 2 /\ Bound("r").obj = Integer(7)
       \/ shape.i = 3 /\ Bound("r").obj = NULL

\* null has been read at a negative index and from the empty array
ArrayIndexingWitnessOutside ==
    /\ Finished
    /\ Bound("r").obj = NULL
    /\ \/ shape.i = 0 - 1 /\ shape.n = 2
       \/ shape.i = 0 /\ shape.n = 0

(***************************************************************************)
(* C17.  SpecHash: let h = {K1: 1, K2: 2, ...}; h[I]  for every literal of *)
(* at most MaxPairs keys of KeyKinds, pairwise distinct, every index I of  *)
(* IndexKinds and every order the evaluator may range over the pairs in.   *)
(***************************************************************************)
MaxPairs == 2

KeyKinds == {"zero", "one", "minus", "true", "false", "empty", "sa", "s1"}

IndexKinds ==
    KeyKinds \cup {"sum", "concat", "not", "null", "array", "fn", "len", "nopairs"}

KeyOperand(k) ==
    CASE k = "zero" -> IntLit(0)
      [] k = "minus" -> Prefix("-", IntLit(1))
      [] k = "empty" -> StrLit(<<>>)
      [] k = "s1" -> StrLit(<<"1">>)
      [] k = "sum" -> Infix(IntLit(0), "+", IntLit(1))
      [] k = "concat" -> Infix(StrLit(<<>>), "+", StrLit(<<"a">>))
      [] k = "nopairs" -> HashLit(<<>>)
      [] OTHER -> Operand(k)

\* the kind and the payload of the value of an operand
KeyType(k) ==
    CASE k \in {"zero", "one", "minus", "sum"} -> "INTEGER"
      [] k \in {"true", "false", "not"} -> "BOOLEAN"
      [] k \in {"empty", "sa", "s1", "concat"} -> "STRING"
      [] k = "null" -> "NULL"
      [] k = "array" -> "ARRAY"
      [] k = "fn" -> "FUNCTION"
      [] k = "len" -> "BUILTIN"
      [] k = "nopairs" -> "HASH"

KeyPayload(k) ==
    CASE k = "zero" -> <<0>>
      [] k \in {"one", "sum"} -> <<1>>
      [] k = "minus" -> <<0 - 1>>
      [] k = "true" -> <<TRUE>>
      [] k \in {"false", "not"} -> <<FALSE>>
      [] k = "empty" -> <<"">>
      [] k \in {"sa", "concat"} -> <<"a">>
      [] k = "s1" -> <<"1">>

SameKey(k1, k2) == KeyType(k1) = KeyType(k2) /\ KeyPayload(k1) = KeyPayload(k2)

HashProgram(sh) ==
    <<Let("h", HashLit([j \in 1 .. Len(sh.keys) |-> <<KeyOperand(sh.keys[j]), IntLit(j)>>])),
      ExprStmt(Index(Ident("h"), KeyOperand(sh.index)))>>

HashInit ==
    \E n \in 0 .. MaxPairs, index \in IndexKinds :
    \E keys \in [1 .. n -> KeyKinds], perm \in RangeOrders(n) :
       /\ \A i, j \in 1 .. n : i # j => keys[i] # keys[j]
       /\ LET sh == [keys |-> keys, index |-> index, perm |-> perm]
          IN  EvalStartOrdered(HashProgram(sh), sh, perm)

SpecHash == HashInit /\ [][EvalNext]_vars

HashKeysWitnessOther ==
    /\ Finished
    /\ \/ shape.keys = <<"sa", "s1">> /\ shape.index = "concat" /\ evres = Integer(1)
       \/ shape.keys = <<"s1">> /\ shape.index = "one" /\ evres = NULL
       \/ shape.keys = <<"zero">> /\ shape.index = "array"
            /\ evres = Error("unusable as hash key: ARRAY")

(***************************************************************************)
(* C18.  SpecSlices: the array builtins with Go's slices spelled out.  A   *)
(* slice is a window (off, len, cap) on a backing array; heap holds the    *)
(* backing arrays and evst the Array objects the program can reach, each   *)
(* with its Elements slice.  The first Array is the value of an array      *)
(* literal, whose Elements evalExpressions built by append from a nil      *)
(* slice; every step is one call of a builtin on Arrays reached so far.    *)
(***************************************************************************)
MaxArrays == 4

NilSlice == [array |-> 0, off |-> 0, len |-> 0, cap |-> 0]

\* the elements s[0], ..., s[len(s) - 1]
SliceElements(h, s) == [i \in 1 .. s.len |-> h[s.array][s.off + i]]

\* make([]object.Object, n, n)
Make(h, n) ==
    [heap |-> Append(h, [i \in 1 .. n |-> Nil]),
     slice |-> [array |-> Len(h) + 1, off |-> 0, len |-> n, cap |-> n]]

\* s[lo:hi]
Reslice(s, lo, hi) ==
    [array |-> s.array, off |-> s.off + lo, len |-> hi - lo, cap |-> s.cap - lo]

\* s[i] = v
SetIndex(h, s, i, v) == [h EXCEPT ![s.array][s.off + i + 1] = v]

\* copy(dst, src)
Copy(h, dst, src) ==
    [h EXCEPT ![dst.array] =
        [i \in 1 .. Len(@) |->
            IF i - dst.off \in 1 .. Min(dst.len, src.len)
            THEN h[src.array][src.off + i - dst.off]
            ELSE @[i]]]

\* append(s, v): in place while the capacity lasts, else into a new backing
\* array of twice the capacity
AppendSlice(h, s, v) ==
    IF s.len < s.cap
    THEN [heap |-> SetIndex(h, s, s.len, v), slice |-> [s EXCEPT !.len = @ + 1]]
    ELSE LET m == Make(h, IF s.cap = 0 THEN 1 ELSE 2 * s.cap)
             grown == [m.slice EXCEPT !.len = s.len + 1]
         IN  [heap |-> SetIndex(IF s.len = 0 THEN m.heap ELSE Copy(m.heap, grown, s),
                                grown, s.len, v),
              slice |-> grown]

\* the loop of evalExpressions on literals: result = append(result, evaluated)
RECURSIVE appendLoop(_, _, _)
appendLoop(h, s, values) ==
    IF values = <<>> THEN [heap |-> h, slice |-> s]
    ELSE LET r == AppendSlice(h, s, Head(values))
         IN  appendLoop(r.heap, r.slice, Tail(values))

ArrayOf(slice) == [Type |-> ARRAY_OBJ, Elements |-> slice]

\* the array cases of len, first and last: they read
builtinLen(h, arr) == Integer(arr.Elements.len)

builtinFirst(h, arr) ==
    IF arr.Elements.len > 0 THEN h[arr.Elements.array][arr.Elements.off + 1] ELSE NULL

builtinLast(h, arr) ==
    LET length == arr.Elements.len
    IN  IF length > 0 THEN h[arr.Elements.array][arr.Elements.off + length] ELSE NULL

\* the array case of rest: [heap, val]
builtinRest(h, arr) ==
    LET length == arr.Elements.len
    IN  IF length > 0
        THEN LET newElements == Make(h, length - 1)
             IN  [heap |-> Copy(newElements.heap, newElements.slice,
                                Reslice(arr.Elements, 1, length)),
                  val |-> ArrayOf(newElements.slice)]
        ELSE [heap |-> h, val |-> NULL]

\* the variant of push that appends to the Elements of its argument
builtinPushAppending(h, arr, v) ==
    LET r == AppendSlice(h, arr.Elements, v)
    IN  [heap |-> r.heap, val |-> ArrayOf(r.slice)]

\* the array case of push: [heap, val]
builtinPush(h, arr, v) ==
    LET length == arr.Elements.len
        newElements == Make(h, length + 1)
        copied == Copy(newElements.heap, newElements.slice, arr.Elements)
    IN  [heap |-> SetIndex(copied, newElements.slice, length, v),
         val |-> ArrayOf(newElements.slice)]

SlicesInit ==
    /\ \E n \in 0 .. MaxElems :
          LET r == appendLoop(<<>>, NilSlice, [i \in 1 .. n |-> Integer(i)])
          IN  heap = r.heap /\ evst = <<ArrayOf(r.slice)>>
    /\ lastOp = [op |-> "literal"]
    /\ input = <<>> /\ evres = <<>> /\ pc = 0 /\ shape = <<>> /\ out = <<>>
    /\ LexIdle /\ ParseIdle

\* a call that returns a new Array adds it to the Arrays reached
Returned(op, a, v, r) ==
    /\ heap' = r.heap
    /\ evst' = IF r.val.Type = ARRAY_OBJ THEN Append(evst, r.val) ELSE evst
    /\ lastOp' = [op |-> op, arg |-> a, v |-> v, val |-> r.val]

SlicesPush ==
    /\ Len(evst) < MaxArrays
    /\ \E a \in 1 .. Len(evst), v \in {Integer(8), Integer(9)} :
          Returned("push", a, v, builtinPush(heap, evst[a], v))
    /\ UNCHANGED <<input, LexVars, ParseVars, evres, pc, shape, out>>

SlicesRest ==
    /\ Len(evst) < MaxArrays
    /\ \E a \in 1 .. Len(evst) : Returned("rest", a, Nil, builtinRest(heap, evst[a]))
    /\ UNCHANGED <<input, LexVars, ParseVars, evres, pc, shape, out>>

SlicesRead ==
    /\ \E a \in 1 .. Len(evst), op \in {"len", "first", "last"} :
          Returned(op, a, Nil,
                   [heap |-> heap,
                    val |-> CASE op = "len" -> builtinLen(heap, evst[a])
                              [] op = "first" -> builtinFirst(heap, evst[a])
                              [] op = "last" -> builtinLast(heap, evst[a])])
    /\ UNCHANGED <<input, LexVars, ParseVars, evres, pc, shape, out>>

SlicesNext == SlicesPush \/ SlicesRest \/ SlicesRead

SpecSlices == SlicesInit /\ [][SlicesNext]_vars

\* the elements of the k-th Array reached, in heap h
ElementsOf(h, k) == SliceElements(h, evst[k].Elements)

\* what the last call returned is right: push(a, v) the elements of a
\* followed by v, rest(a) those of a without the first or null for the empty
\* a, both in an Array that shares no backing array with a
ReturnedRight ==
    LET a == ElementsOf(heap, lastOp.arg)
        r == SliceElements(heap, lastOp.val.Elements)
        fresh == lastOp.val.Elements.array # evst[lastOp.arg].Elements.array
    IN  CASE lastOp.op = "push" -> r = Append(a, lastOp.v) /\ fresh
          [] lastOp.op = "rest" ->
                IF a = <<>> THEN lastOp.val = NULL ELSE r = Tail(a) /\ fresh
          [] lastOp.op = "len" -> lastOp.val = Integer(Len(a))
          [] lastOp.op = "first" -> lastOp.val = IF a = <<>> THEN NULL ELSE a[1]
          [] lastOp.op = "last" -> lastOp.val = IF a = <<>> THEN NULL ELSE a[Len(a)]
          [] OTHER -> TRUE

\* a call leaves every Array reached before it with the elements it had
ArraysKept ==
    \A k \in 1 .. Len(evst) :
        evst'[k] = evst[k] /\ ElementsOf(heap', k) = ElementsOf(heap, k)

IdentNames == {"len", "puts", "push", "first", "x", "y"}

IdentProgram(sh) ==
    LET read == IF sh.read = "same" THEN ExprStmt(Ident(sh.name))
                ELSE ExprStmt(Call(Fn(<<>>, <<ExprStmt(Ident(sh.name))>>), <<>>))
        body == IF sh.bind = "local" THEN <<Let(sh.name, IntLit(2)), read>> ELSE <<read>>
        g == Fn(IF sh.bind = "param" THEN <<sh.name>> ELSE <<>>, body)
        call == Call(Ident("g"), IF sh.bind = "param" THEN <<IntLit(3)>> ELSE <<>>)
    IN  (IF sh.bind = "top" THEN <<Let(sh.name, IntLit(1))>> ELSE <<>>)
        \o <<Let("g", g), Let("r", call), ExprStmt(Ident(sh.name))>>

IdentInit ==
    \E name \in IdentNames, bind \in {"none", "top", "local", "param"},
       read \in {"same", "child"} :
       LET sh == [name |-> name, bind |-> bind, read |-> read]
       IN  EvalStart(IdentProgram(sh), sh)

SpecIdent == IdentInit /\ [][EvalNext]_vars

\* what a name that no environment of the chain binds evaluates to
WhenUnbound(name) ==
    IF name \in {"len", "puts", "first", "last", "rest", "push"}
    THEN [Type |-> "BUILTIN", Fn |-> name]
    ELSE [Type |-> "ERROR", Message |-> "identifier not found: " \o name]

\* C19: an identifier evaluates to the binding of the nearest environment of
\* the chain that binds it; only when none does, to the builtin of that
\* name; and only when there is no such builtin, to the Error identifier not
\* found: <name>.  A let or a parameter named like a builtin shadows it in
\* that scope and in the functions nested in it, and the name still means
\* the builtin outside.
IdentifierResolution ==
    Finished =>
        LET inside == CASE shape.bind = "top" -> Integer(1)
                        [] shape.bind = "local" -> Integer(2)
                        [] shape.bind = "param" -> Integer(3)
                        [] OTHER -> WhenUnbound(shape.name)
            after == IF shape.bind = "top" THEN Integer(1) ELSE WhenUnbound(shape.name)
        IN  IF inside.Type = "ERROR"
            THEN evres = inside /\ ~Bound("r").ok
            ELSE Bound("r") = [obj |-> inside, ok |-> TRUE] /\ evres = after

\* let len = 2 inside g has shadowed the builtin for a function nested in g,
\* and len is the builtin again at the top level
IdentifierResolutionWitness ==
    /\ Finished
    /\ shape = [name |-> "len", bind |-> "local", read |-> "child"]
    /\ Bound("r").obj = Integer(2)
    /\ evres = Builtin("len")

(***************************************************************************)
(* C20.  SpecHashOrder: let h = {P1, P2, ...}; h[0]  for every literal of  *)
(* at most MaxPairs pairs of PairKinds and every order the evaluator may   *)
(* range over the pairs in.  The j-th pair is j: j ("value"), 0: j         *)
(* ("zero"), an unbound name as key ("key") or as value ("val"), or an     *)
(* array as key ("array").                                                 *)
(***************************************************************************)
PairKinds == {"value", "zero", "key", "val", "array"}

Pair(kind, j) ==
    CASE kind = "value" -> <<IntLit(j), IntLit(j)>>
      [] kind = "zero" -> <<IntLit(0), IntLit(j)>>
      [] kind = "key" -> <<Ident(Unbound[j]), IntLit(j)>>
      [] kind = "val" -> <<IntLit(j), Ident(Unbound[j])>>
      [] kind = "array" -> <<Arr(<<IntLit(j)>>), IntLit(j)>>

HashOrderProgram(sh) ==
    <<Let("h", HashLit([j \in 1 .. Len(sh.kinds) |-> Pair(sh.kinds[j], j)])),
      ExprStmt(Index(Ident("h"), IntLit(0)))>>

HashOrderInit ==
    \E n \in 0 .. MaxPairs :
    \E kinds \in [1 .. n -> PairKinds], perm \in RangeOrders(n) :
       LET sh == [kinds |-> kinds, perm |-> perm]
       IN  EvalStartOrdered(HashOrderProgram(sh), sh, perm)

SpecHashOrder == HashOrderInit /\ [][EvalNext]_vars

\* the pairs that fail, and the Error of the j-th pair
FailingPairs(kinds) == {j \in 1 .. Len(kinds) : kinds[j] \in {"key", "val", "array"}}

PairError(kinds, j) ==
    [Type |-> "ERROR",
     Message |-> IF kinds[j] = "array" THEN "unusable as hash key: ARRAY"
                 ELSE "identifier not found: " \o Unbound[j]]

\* the result of the program when the pairs are evaluated in source order
InSourceOrder(kinds) ==
    LET failing == FailingPairs(kinds)
        zeros == {j \in 1 .. Len(kinds) : kinds[j] = "zero"}
    IN  IF failing # {}
        THEN PairError(kinds, CHOOSE j \in failing : \A i \in failing : j <= i)
        ELSE IF zeros # {}
        THEN [Type |-> "INTEGER", Value |-> CHOOSE j \in zeros : \A i \in zeros : j >= i]
        ELSE [Type |-> "NULL"]

\* C20: the pairs of a hash literal are evaluated in source order and the
\* first pair that fails ends the evaluation, so the result is determined by
\* the program: of two failing pairs the Error of the earlier one is
\* returned, and of two pairs with the same key the value of the later one
\* is stored.
HashSourceOrder == Finished => evres = InSourceOrder(shape.kinds)

\* the same statement for the runs in which the range over the pairs takes
\* them in source order
HashSourceOrderInOrder ==
    (\A j \in 1 .. Len(shape.perm) : shape.perm[j] = j) => HashSourceOrder

\* {0: 1, 0: 2}[0] has been evaluated to 2, the pairs taken in source order
HashSourceOrderInOrderWitness ==
    /\ Finished
    /\ shape.kinds = <<"zero", "zero">> /\ shape.perm = <<1, 2>>
    /\ evres = Integer(2)

(***************************************************************************)
(* C21.  SpecMarker: `if (c) { return x; }` standing where a value is      *)
(* used: as the value of a let, as a call argument of a function or of     *)
(* puts, as an array element, as a hash key or value, or as an operand of  *)
(* a prefix, infix or index operator; or as a statement of its own.  The   *)
(* statement is followed by puts(9), at the top level or in the body of a  *)
(* function that is called.                                                *)
(***************************************************************************)
MarkerPlaces ==
    {"statement", "let", "argument", "builtin", "element", "key", "value", "prefix",
     "left", "right", "indexed", "index"}

MarkerStatement(sh) ==
    LET ifx == IF sh.cond = "then" THEN IfThen(Bool(TRUE), <<Return(IntLit(sh.x))>>)
               ELSE IfElse(Bool(FALSE), <<Puts(9)>>, <<Return(IntLit(sh.x))>>)
        p == sh.place
    IN  CASE p = "statement" -> ExprStmt(ifx)
          [] p = "let" -> Let("y", ifx)
          [] p = "argument" ->
                ExprStmt(Call(Fn(<<"a">>, <<ExprStmt(Ident("a"))>>), <<ifx>>))
          [] p = "builtin" -> ExprStmt(Call(Ident("puts"), <<ifx>>))
          [] p = "element" -> ExprStmt(Arr(<<IntLit(7), ifx>>))
          [] p = "key" -> ExprStmt(HashLit(<<<<ifx, IntLit(7)>>>>))
          [] p = "value" -> ExprStmt(HashLit(<<<<IntLit(7), ifx>>>>))
          [] p = "prefix" -> ExprStmt(Prefix("-", ifx))
          [] p = "left" -> ExprStmt(Infix(ifx, "+", IntLit(7)))
          [] p = "right" -> ExprStmt(Infix(IntLit(7), "+", ifx))
          [] p = "indexed" -> ExprStmt(Index(ifx, IntLit(0)))
          [] p = "index" -> ExprStmt(Index(Arr(<<IntLit(7)>>), ifx))

\* STATEMENT puts(9);     or     let f = fn() { STATEMENT puts(9); }; f(); puts(8);
MarkerProgram(sh) ==
    LET body == <<MarkerStatement(sh), Puts(9)>>
    IN  IF sh.top = "fn"
        THEN <<Let("f", Fn(<<>>, body)), ExprStmt(Call(Ident("f"), <<>>)), Puts(8)>>
        ELSE body

MarkerInit ==
    \E top \in {"fn", "program"}, place \in MarkerPlaces, cond \in {"then", "else"},
       x \in Values :
       LET sh == [top |-> top, place |-> place, cond |-> cond, x |-> x]
       IN  EvalStart(MarkerProgram(sh), sh)

SpecMarker == MarkerInit /\ [][EvalNext]_vars

\* obj is a ReturnValue, or an Array or Hash that holds one
RECURSIVE HoldsReturn(_)
HoldsReturn(obj) ==
    CASE obj.Type = RETURN_VALUE_OBJ -> TRUE
      [] obj.Type = ARRAY_OBJ ->
            \E i \in 1 .. Len(obj.Elements) : HoldsReturn(obj.Elements[i])
      [] obj.Type = HASH_OBJ ->
            \E k \in DOMAIN obj.Pairs :
                HoldsReturn(obj.Pairs[k].Key) \/ HoldsReturn(obj.Pairs[k].Value)
      [] OTHER -> FALSE

\* the Errors an operator gives for an operand of type RETURN_VALUE
ReturnOperandErrors ==
    {newError("unknown operator: -" \o RETURN_VALUE_OBJ),
     newError("type mismatch: " \o RETURN_VALUE_OBJ \o " + " \o INTEGER_OBJ),
     newError("type mismatch: " \o INTEGER_OBJ \o " + " \o RETURN_VALUE_OBJ),
     newError("index operator not supported: " \o RETURN_VALUE_OBJ),
     newError("unusable as hash key: " \o RETURN_VALUE_OBJ)}

ReturnIsOnlyMarker ==
    /\ \A e \in 1 .. Len(evst.heap) : \A n \in DOMAIN evst.heap[e].store :
          ~HoldsReturn(evst.heap[e].store[n])
    /\ ~HoldsReturn(evres)
    /\ evres \notin ReturnOperandErrors

\* C21: a ReturnValue is never bound to a name in an environment (by let or
\* as a call argument), never held by an Array or a Hash, and never the
\* operand of a prefix, infix or index operator or a hash key.
ReturnOnlyPropagates == ReturnIsOnlyMarker

\* the same, for the programs in which the if is a statement of its own
ReturnOnlyPropagatesStatement == shape.place = "statement" => ReturnIsOnlyMarker

ReturnOnlyPropagatesStatementWitness ==
    /\ Finished /\ shape.place = "statement" /\ shape.top = "fn"
    /\ evst.out = <<"8">>

(***************************************************************************)
(* C22.  SpecArity: a function of k parameters applied to n arguments.     *)
(*                                                                         *)
(*   let f = fn(a, b) { puts(5); [a, b] }; let r = f(1, 2, 1); puts(8);    *)
(***************************************************************************)
MaxParams == 2

ParamNames == <<"a", "b", "c", "d">>

ArityProgram(sh) ==
    LET params == SubSeq(ParamNames, 1, sh.k)
        body == <<Puts(5), ExprStmt(Arr([i \in 1 .. sh.k |-> Ident(params[i])]))>>
    IN  <<Let("f", Fn(params, body)),
          Let("r", Call(Ident("f"), [i \in 1 .. Len(sh.args) |-> IntLit(sh.args[i])])),
          Puts(8)>>

ArityInit ==
    \E k \in 0 .. MaxParams, n \in 0 .. MaxParams + 1 :
    \E args \in [1 .. n -> Values] :
       LET sh == [k |-> k, args |-> args]
       IN  EvalStart(ArityProgram(sh), sh)

SpecArity == ArityInit /\ [][EvalNext]_vars

\* the call has evaluated the body in a new environment enclosed by the
\* function's own, which binds exactly the parameters, each to the argument
\* at its position, and r is the value of the body
AppliedPositionally ==
    LET k == shape.k
    IN  /\ ~Stops(evres)
        /\ evst.out = <<"5", "8">>
        /\ Len(evst.heap) = 2
        /\ evst.heap[2].outer = TopEnv
        /\ DOMAIN evst.heap[2].store = {ParamNames[i] : i \in 1 .. k}
        /\ k <= Len(shape.args)
        /\ \A i \in 1 .. k : evst.heap[2].store[ParamNames[i]] = Integer(shape.args[i])
        /\ Bound("r").ok
        /\ Bound("r").obj.Type = ARRAY_OBJ
        /\ Bound("r").obj.Elements = [i \in 1 .. k |-> Integer(shape.args[i])]

\* C22: whatever the numbers of parameters and of arguments, the call gives
\* no Error and evaluates the body in a fresh environment that binds each
\* parameter to the argument at its position.
NoArgumentCountCheck == Finished => AppliedPositionally

\* the same, for the calls with at least as many arguments as parameters
NoArgumentCountCheckEnough ==
    Finished /\ Len(shape.args) >= shape.k => AppliedPositionally

NoArgumentCountCheckEnoughWitness ==
    /\ Finished /\ shape.k = 2 /\ shape.args = <<1, 2, 1>>
    /\ Bound("r").obj.Elements = <<Integer(1), Integer(2)>>

(***************************************************************************)
(* C23.  Integer.Value is an int64.  At its full width an int64 is the    *)
(* sequence of the 8 bytes of its two's complement, the least significant  *)
(* first (Uint64 above), and arithmetic on it is arithmetic modulo 2^64.   *)
(***************************************************************************)
MinInt64 == <<0, 0, 0, 0, 0, 0, 0, 128>>

MaxInt64 == <<255, 255, 255, 255, 255, 255, 255, 127>>

IsNegative(x) == x[8] >= 128

\* x + y + carry from byte i on, modulo 256^Len(x)
RECURSIVE AddBytes(_, _, _, _)
AddBytes(x, y, i, carry) ==
    IF i > Len(x) THEN <<>>
    ELSE LET t == x[i] + y[i] + carry
         IN  <<t % 256>> \o AddBytes(x, y, i + 1, t \div 256)

ZeroBytes(n) == [i \in 1 .. n |-> 0]

NotBytes(x) == [i \in 1 .. Len(x) |-> 255 - x[i]]

\* -x: the negation wraps, so that -MinInt64 is MinInt64
NegBytes(x) == AddBytes(NotBytes(x), ZeroBytes(Len(x)), 1, 1)

\* x - y
SubBytes(x, y) == AddBytes(x, NotBytes(y), 1, 1)

\* x >= y for unsigned x and y, from byte i down
RECURSIVE GeqBytes(_, _, _)
GeqBytes(x, y, i) ==
    IF i = 0 THEN TRUE
    ELSE IF x[i] # y[i] THEN x[i] > y[i]
    ELSE GeqBytes(x, y, i - 1)

\* |x| as a uint64: 2^63 for MinInt64
Magnitude(x) == IF IsNegative(x) THEN NegBytes(x) ELSE x

\* x[i] * y[k + 1 - i] summed over the i from i on with both in range
RECURSIVE SumProducts(_, _, _, _)
SumProducts(x, y, k, i) ==
    IF i > Len(x) \/ i > k THEN 0
    ELSE (IF k + 1 - i <= Len(y) THEN x[i] * y[k + 1 - i] ELSE 0)
         + SumProducts(x, y, k, i + 1)

\* the product of two unsigned numbers in Len(x) + Len(y) bytes, from byte k on
RECURSIVE MulBytes(_, _, _, _)
MulBytes(x, y, k, carry) ==
    IF k > Len(x) + Len(y) THEN <<>>
    ELSE LET t == SumProducts(x, y, k, 1) + carry
         IN  <<t % 256>> \o MulBytes(x, y, k + 1, t \div 256)

\* the largest d below 2^(bit + 1) + d0 with d * b <= x, found bit by bit
RECURSIVE QuoDigit(_, _, _, _)
QuoDigit(x, b, bit, d) ==
    IF bit < 0 THEN d
    ELSE IF GeqBytes(x, MulBytes(b, <<d + 2 ^ bit>>, 1, 0), 9)
    THEN QuoDigit(x, b, bit - 1, d + 2 ^ bit)
    ELSE QuoDigit(x, b, bit - 1, d)

\* one step of the long division of an unsigned number by b: the next byte d
\* of the quotient and the remainder r, from the remainder so far followed by
\* the next byte of the dividend, x
QuoStep(x, b) ==
    LET d == QuoDigit(x, b, 7, 0)
    IN  [d |-> d, r |-> SubSeq(SubBytes(x, MulBytes(b, <<d>>, 1, 0)), 1, 8)]

\* the unsigned quotient a / b, from byte k of a down, with the remainder r
\* so far: the bytes of the quotient from byte k down
RECURSIVE UnsignedQuoLoop(_, _, _, _)
UnsignedQuoLoop(a, b, k, r) ==
    IF k = 0 THEN <<>>
    ELSE CHOOSE q \in {UnsignedQuoLoop(a, b, k - 1, s.r) \o <<s.d>> :
                          s \in {QuoStep(<<a[k]>> \o r, b)}} : TRUE

\* leftVal / rightVal on two int64: the quotient of the magnitudes with the
\* sign of the operands, kept to 64 bits
QuoInt64(leftVal, rightVal) ==
    LET q == UnsignedQuoLoop(Magnitude(leftVal), Magnitude(rightVal), 8, ZeroBytes(8))
    IN  IF IsNegative(leftVal) # IsNegative(rightVal) THEN NegBytes(q) ELSE q

(***************************************************************************)
(* SpecDiv: evalIntegerInfixExpression("/", left, right) on two Integer    *)
(* objects: every pair of the values from -MaxQuo to MaxQuo and of the     *)
(* values at the two ends of the int64 range.                              *)
(***************************************************************************)
MaxQuo == 7

DivOperands ==
    {Uint64(v) : v \in (0 - MaxQuo) .. MaxQuo}
    \cup {MinInt64, AddBytes(MinInt64, ZeroBytes(8), 1, 1), MaxInt64,
          SubBytes(MaxInt64, Uint64(1))}

DivInit ==
    /\ \E left \in DivOperands, right \in DivOperands :
          shape = [left |-> left, right |-> right]
    /\ evres = Nil
    /\ pc = 1
    /\ input = <<>> /\ evst = <<>> /\ out = <<>>
    /\ LexIdle /\ EnvIdle /\ ParseIdle

DivStep ==
    /\ pc = 1
    /\ evres' = IF shape.right = ZeroBytes(8) THEN Panic("integer divide by zero")
                ELSE Integer(QuoInt64(shape.left, shape.right))
    /\ pc' = 0
    /\ UNCHANGED <<input, LexVars, EnvVars, ParseVars, evst, shape, out>>

DivNext == DivStep

SpecDiv == DivInit /\ [][DivNext]_vars

Widen(x) == x \o ZeroBytes(8)

\* q is a / b truncated toward zero, in the integers:
\* |q| * |b| <= |a| < |q| * |b| + |b|, and q < 0 exactly when the signs of a
\* and b differ and |a| >= |b|
TruncatedQuotient(a, b, q) ==
    LET ma == Magnitude(a)
        mb == Magnitude(b)
        product == MulBytes(Magnitude(q), mb, 1, 0)
    IN  /\ GeqBytes(Widen(ma), product, 16)
        /\ ~GeqBytes(Widen(ma), AddBytes(product, Widen(mb), 1, 0), 16)
        /\ IsNegative(q) <=> (IsNegative(a) # IsNegative(b)) /\ GeqBytes(ma, mb, 8)

Divided == pc = 0 /\ shape.right # ZeroBytes(8)

\* C23: for Integer operands a and b with b # 0, a / b is the Integer whose
\* value is the quotient truncated toward zero, with the sign of the
\* quotient, for all four sign combinations.
DivisionTruncates ==
    Divided =>
        /\ evres.Type = INTEGER_OBJ
        /\ TruncatedQuotient(shape.left, shape.right, evres.Value)

\* the same, but for MinInt64 / -1, whose quotient 2^63 is not an int64
DivisionTruncatesInRange ==
    Divided /\ ~(shape.left = MinInt64 /\ shape.right = Uint64(0 - 1)) =>
        /\ evres.Type = INTEGER_OBJ
        /\ TruncatedQuotient(shape.left, shape.right, evres.Value)
        /\ \A a, b \in (0 - MaxQuo) .. MaxQuo :
              shape.left = Uint64(a) /\ shape.right = Uint64(b) =>
                  evres.Value = Uint64(Quo(a, b))

DivisionTruncatesInRangeWitness ==
    /\ Divided
    /\ shape.left = Uint64(0 - 7) /\ shape.right = Uint64(2)
    /\ evres = Integer(Uint64(0 - 3))

DivisionTruncatesInRangeWitnessEnd ==
    /\ Divided
    /\ shape.left = MinInt64 /\ shape.right = Uint64(2)
    /\ evres = Integer(<<0, 0, 0, 0, 0, 0, 0, 192>>)

(***************************************************************************)
(* C24.  SpecCursor: a parser on every source text of at most              *)
(* MaxCursorWords words of CursorWords, then any sequence of nextToken     *)
(* calls, expectPeek calls and iterations of the loop of ParseProgram.     *)
(* lastOp records the call made.                                           *)
(***************************************************************************)
MaxCursorWords == 3
MaxCursorErrors == 1

CursorWords == {"let", "a", "=", ";"}

ExpectedTypes == {IDENT, ASSIGN}

CursorInit ==
    /\ input \in {Source(ws) : ws \in SeqsUpTo(CursorWords, MaxCursorWords)}
    /\ parser = ParserNew(New(input))
    /\ program = <<>>
    /\ heap = <<>>
    /\ lastOp = [op |-> "New"]
    /\ LexIdle /\ EvalIdle

\* the number of NextToken calls made on the parser's lexer
CursorCalls(ps) == NextTokenCalls(New(input), ps.l)

CursorNextToken ==
    /\ CursorCalls(parser) < Len(TokensOf(New(input))) + MaxEofCalls
    /\ parser' = nextToken(parser)
    /\ lastOp' = [op |-> "nextToken"]
    /\ UNCHANGED <<input, LexVars, heap, program, EvalVars>>

CursorExpectPeek ==
    /\ CursorCalls(parser) < Len(TokensOf(New(input))) + MaxEofCalls
    /\ Len(parser.errors) < MaxCursorErrors
    /\ \E t \in ExpectedTypes : \E r \in {expectPeek(parser, t)} :
          /\ parser' = r.p
          /\ lastOp' = [op |-> "expectPeek", t |-> t, ok |-> r.ok]
    /\ UNCHANGED <<input, LexVars, heap, program, EvalVars>>

CursorParseStep ==
    /\ ~curTokenIs(parser, EOF)
    /\ \E r \in {ParseProgramStep(parser, program)} :
          parser' = r.p /\ program' = r.list
    /\ lastOp' = [op |-> "ParseProgram"]
    /\ UNCHANGED <<input, LexVars, heap, EvalVars>>

CursorNext == CursorNextToken \/ CursorExpectPeek \/ CursorParseStep

SpecCursor == CursorInit /\ [][CursorNext]_vars

\* the i-th token of the lexer's stream, which goes on with EOF
TokenAt(i) ==
    LET toks == TokensOf(New(input))
    IN  toks[Min(i, Len(toks))]

\* cur and peek are the tokens of the last two NextToken calls but one
CursorInPlace ==
    LET n == CursorCalls(parser)
    IN  /\ n >= 2
        /\ parser.curToken = TokenAt(n - 1)
        /\ parser.peekToken = TokenAt(n)

AfterConstruction ==
    lastOp.op = "New" => CursorCalls(parser) = 2 /\ parser.errors = <<>>

\* the effect of the call on the cursor
CursorMoves ==
    LET n == CursorCalls(parser)
        m == CursorCalls(parser')
    IN  CASE lastOp'.op = "nextToken" -> m = n + 1 /\ parser'.errors = parser.errors
          [] lastOp'.op = "expectPeek" ->
                IF peekTokenIs(parser, lastOp'.t)
                THEN /\ lastOp'.ok
                     /\ m = n + 1
                     /\ parser'.curToken = parser.peekToken
                     /\ parser'.errors = parser.errors
                ELSE /\ ~lastOp'.ok
                     /\ parser'.l = parser.l
                     /\ parser'.curToken = parser.curToken
                     /\ parser'.peekToken = parser.peekToken
                     /\ Len(parser'.errors) = Len(parser.errors) + 1
                     /\ SubSeq(parser'.errors, 1, Len(parser.errors)) = parser.errors
          [] lastOp'.op = "ParseProgram" -> m > n

\* C24: after construction cur and peek are the first two tokens of the
\* stream; in every state peek is the token of the NextToken call that
\* followed the one that gave cur, so that the tokens are taken in order, none
\* skipped or read twice; an expectPeek that succeeds advances by one token
\* and one that fails leaves cur and peek and appends one message.
CursorInvariant ==
    /\ [](CursorInPlace /\ AfterConstruction)
    /\ [][CursorMoves]_vars

CursorInvariantWitness ==
    /\ lastOp.op = "expectPeek" /\ ~lastOp.ok /\ lastOp.t = ASSIGN
    /\ CursorCalls(parser) = 3
    /\ parser.curToken.Type = LET_ /\ parser.peekToken.Type = IDENT
    /\ parser.errors = <<"expected next token to be =, got IDENT instead">>

CursorInvariantWitnessAdvanced ==
    /\ lastOp.op = "expectPeek" /\ lastOp.ok /\ lastOp.t = ASSIGN
    /\ parser.curToken.Type = ASSIGN /\ parser.peekToken.Type = SEMICOLON
    /\ Len(program) = 0

(***************************************************************************)
(* C25.  SpecBlock: a let inside a block of an if-expression, of a name    *)
(* that the enclosing environment binds already or does not, at the top    *)
(* level or in the body of a function that is called.                      *)
(*                                                                         *)
(*   let a = G; if (C) { let a = V; a } else { let a = V; }; puts(8);      *)
(***************************************************************************)
BlockBody(sh) ==
    (IF sh.outer THEN <<Let("a", IntLit(sh.g))>> ELSE <<>>)
    \o <<ExprStmt(IfElse(Bool(sh.branch = "then"),
                         <<Let(sh.name, IntLit(sh.v)), ExprStmt(Ident(sh.name))>>,
                         <<Let(sh.name, IntLit(sh.v))>>)),
         Puts(8)>>

BlockProgram(sh) ==
    IF sh.top = "fn"
    THEN <<Let("f", Fn(<<>>, BlockBody(sh))), ExprStmt(Call(Ident("f"), <<>>))>>
    ELSE BlockBody(sh)

BlockInit ==
    \E top \in {"fn", "program"}, outer \in BOOLEAN, branch \in {"then", "else"},
       name \in {"a", "b"}, g \in Values, v \in {3, 4} :
       LET sh == [top |-> top, outer |-> outer, branch |-> branch, name |-> name,
                  g |-> g, v |-> v]
       IN  EvalStart(BlockProgram(sh), sh)

SpecBlock == BlockInit /\ [][EvalNext]_vars

\* the environment in which the if-expression was evaluated: the top-level
\* one, or the one made for the call of f
EnclosingEnv == IF shape.top = "fn" THEN 2 ELSE TopEnv

\* C25: after the block has been evaluated, the enclosing environment does
\* not bind the name that the let inside the block bound, and a binding of
\* the same name made outside the block has its previous value.
BlockScope ==
    Finished =>
        LET store == evst.heap[EnclosingEnv].store
        IN  /\ evst.out = <<"8">>
            /\ IF shape.outer THEN "a" \in DOMAIN store /\ store["a"] = Integer(shape.g)
               ELSE "a" \notin DOMAIN store
            /\ "b" \notin DOMAIN store

\* what the evaluation does: the let inside the block binds the name in the
\* enclosing environment itself, and no other environment is made
BlockSharesEnv ==
    Finished =>
        /\ evst.out = <<"8">>
        /\ Len(evst.heap) = EnclosingEnv
        /\ shape.name \in DOMAIN evst.heap[EnclosingEnv].store
        /\ evst.heap[EnclosingEnv].store[shape.name] = Integer(shape.v)

BlockSharesEnvWitness ==
    /\ Finished /\ shape.outer /\ shape.name = "a" /\ shape.top = "program"
    /\ shape.g = 1 /\ shape.v = 3
    /\ Bound("a").obj = Integer(3)

(***************************************************************************)
(* C26.  SpecTerm: ParseProgram, one iteration of its loop per step, on    *)
(* source texts that exercise every loop of the parser: the first n words  *)
(* of one of TermSeeds, n up to MaxTermWords, as they stand or with one    *)
(* word replaced by a word of TermWords.  The loop of ParseProgram runs    *)
(* until its condition fails: each iteration is taken when it can be.      *)
(***************************************************************************)
MaxTermWords == 10

TermSeeds ==
    {<<"if", "(", "a", ")", "{", "a", ";", "a", "}">>,
     <<"if", "(", "a", ")", "{", "}", "else", "{", "a", "}">>,
     <<"fn", "(", "a", ",", "a", ")", "{", "a", ";", "}">>,
     <<"a", "(", "a", ",", "a", "+", "a", ")", ";">>,
     <<"[", "a", ",", "a", "]", "[", "a", "]">>,
     <<"{", "a", ":", "a", ",", "a", ":", "a", "}">>,
     <<"let", "a", "=", "a", "+", "a", "*", "a", ";">>}

TermWords == {"a", "{", "}", "(", ",", ";", "if"}

\* the texts: k = 0 leaves the words as they are
TermTexts ==
    {[i \in 1 .. n |-> IF i = k THEN w ELSE seed[i]] :
        <<seed, n, k, w>> \in
            {t \in TermSeeds \X (0 .. MaxTermWords) \X (0 .. MaxTermWords) \X TermWords :
                t[2] <= Len(t[1]) /\ t[3] <= t[2]}}

TermInit ==
    /\ input \in {Source(ws) : ws \in TermTexts}
    /\ parser = ParserNew(New(input))
    /\ program = <<>>
    /\ LexIdle /\ EnvIdle /\ EvalIdle

\* ParseProgram has returned
ProgramReturned == curTokenIs(parser, EOF)

\* Weak fairness of ParseStep.  The step is enabled exactly when its guard
\* holds, the rest of it being a function of the state that moves the lexer;
\* so the condition is written with the guard in the place of ENABLED.
ParseStepFair == []<>ProgramReturned \/ []<><<ParseStep>>_vars

SpecTerm == TermInit /\ [][ParseNext]_vars /\ ParseStepFair

\* the iteration has read at least one token, and none past the first EOF but
\* those that every unfinished construct reads
Consumes ==
    /\ CursorCalls(parser') > CursorCalls(parser)
    /\ CursorCalls(parser') <= 2 * Len(TokensOf(New(input))) + 2

\* C26: on every input ParseProgram returns, with cur = EOF, after finitely
\* many iterations, each of which consumes at least one token; every loop
\* inside an iteration ends, on malformed input and on input that ends inside
\* an open block, list or hash literal as well.
ParsingTerminates == <>ProgramReturned /\ [][Consumes]_vars

\* an input that ends inside an open block has been parsed to its end
ParsingTerminatesWitness ==
    /\ input = Source(<<"fn", "(", "a", ",", "a", ")", "{", "a">>)
    /\ ProgramReturned
    /\ Len(program) = 1
    /\ program[1].Expression.kind = "FunctionLiteral"

\* one that ends inside an open hash literal
ParsingTerminatesWitnessHash ==
    /\ input = Source(<<"{", "a", ":", "a", ",">>)
    /\ ProgramReturned
    /\ Len(parser.errors) > 0

(***************************************************************************)
(* C28.  SpecStored: an expression whose evaluation gives an Error (or,    *)
(* for comparison, the literal 3) standing where a value is stored: as the *)
(* value of a let, as an argument of a function or of a builtin, as an     *)
(* array element, as a hash key or value.  The statement is followed by    *)
(* puts(9), at the top level or in the body of a function that is called.  *)
(***************************************************************************)
StoredPlaces ==
    {"let", "argument", "first", "second", "puts", "len", "push", "element", "key",
     "value"}

ErrorKinds ==
    {"none", "prefix", "infix", "identifier", "builtin", "call", "index", "if",
     "returned"}

ErrorExpression(kind) ==
    LET minus == Prefix("-", Bool(TRUE))
    IN  CASE kind = "none" -> IntLit(3)
          [] kind = "prefix" -> minus
          [] kind = "infix" -> Infix(IntLit(1), "+", Bool(TRUE))
          [] kind = "identifier" -> Ident("zz")
          [] kind = "builtin" -> Call(Ident("len"), <<IntLit(1)>>)
          [] kind = "call" -> Call(IntLit(1), <<>>)
          [] kind = "index" -> Index(HashLit(<<>>), Arr(<<>>))
          [] kind = "if" -> IfThen(Bool(TRUE), <<ExprStmt(minus)>>)
          [] kind = "returned" -> Call(Fn(<<>>, <<Return(minus)>>), <<>>)

StoredStatement(sh) ==
    LET e == ErrorExpression(sh.err)
        p == sh.place
        two == Fn(<<"a", "b">>, <<Puts(5), ExprStmt(Ident("b"))>>)
    IN  CASE p = "let" -> Let("y", e)
          [] p = "argument" ->
                ExprStmt(Call(Fn(<<"a">>, <<Puts(5), ExprStmt(Ident("a"))>>), <<e>>))
          [] p = "first" -> ExprStmt(Call(two, <<e, IntLit(7)>>))
          [] p = "second" -> ExprStmt(Call(two, <<IntLit(7), e>>))
          [] p = "puts" -> ExprStmt(Call(Ident("puts"), <<IntLit(7), e>>))
          [] p = "len" -> ExprStmt(Call(Ident("len"), <<e>>))
          [] p = "push" -> Let("y", Call(Ident("push"), <<Arr(<<>>), e>>))
          [] p = "element" -> Let("y", Arr(<<IntLit(7), e>>))
          [] p = "key" -> Let("y", HashLit(<<<<e, IntLit(7)>>>>))
          [] p = "value" -> Let("y", HashLit(<<<<IntLit(7), e>>>>))

\* STATEMENT puts(9);     or     let f = fn() { STATEMENT puts(9); }; f(); puts(8);
StoredProgram(sh) ==
    LET body == <<StoredStatement(sh), Puts(9)>>
    IN  IF sh.top = "fn"
        THEN <<Let("f", Fn(<<>>, body)), ExprStmt(Call(Ident("f"), <<>>)), Puts(8)>>
        ELSE body

StoredInit ==
    \E top \in {"fn", "program"}, place \in StoredPlaces, err \in ErrorKinds :
       LET sh == [top |-> top, place |-> place, err |-> err]
       IN  EvalStart(StoredProgram(sh), sh)

SpecStored == StoredInit /\ [][EvalNext]_vars

\* obj is an Error, or a ReturnValue, an Array or a Hash that holds one
RECURSIVE HoldsError(_)
HoldsError(obj) ==
    IF obj = Nil THEN FALSE
    ELSE CASE obj.Type = ERROR_OBJ -> TRUE
           [] obj.Type = RETURN_VALUE_OBJ -> HoldsError(obj.Value)
           [] obj.Type = ARRAY_OBJ ->
                 \E i \in 1 .. Len(obj.Elements) : HoldsError(obj.Elements[i])
           [] obj.Type = HASH_OBJ ->
                 \E k \in DOMAIN obj.Pairs :
                     HoldsError(obj.Pairs[k].Key) \/ HoldsError(obj.Pairs[k].Value)
           [] OTHER -> FALSE

\* the Error the expression gives where it is evaluated
ErrorRaised ==
    CASE shape.err = "prefix" -> newError("unknown operator: -" \o BOOLEAN_OBJ)
      [] shape.err = "infix" ->
            newError("type mismatch: " \o INTEGER_OBJ \o " + " \o BOOLEAN_OBJ)
      [] shape.err = "identifier" -> newError("identifier not found: zz")
      [] shape.err = "builtin" ->
            newError("argument to 'len' not supported, got " \o INTEGER_OBJ)
      [] shape.err = "call" -> newError("not a function: " \o INTEGER_OBJ)
      [] shape.err = "index" -> newError("unusable as hash key: " \o ARRAY_OBJ)
      [] shape.err = "if" -> newError("unknown operator: -" \o BOOLEAN_OBJ)
      [] shape.err = "returned" -> newError("unknown operator: -" \o BOOLEAN_OBJ)

\* a function or a builtin was applied to the arguments of the statement:
\* the function has written 5, puts has written 7
ArgumentsApplied == \E i \in 1 .. Len(evst.out) : evst.out[i] \in {"5", "7"}

NoErrorStored ==
    /\ \A e \in 1 .. Len(evst.heap) : \A n \in DOMAIN evst.heap[e].store :
          ~HoldsError(evst.heap[e].store[n])
    /\ isError(evres) \/ ~HoldsError(evres)
    /\ \A i \in 1 .. Len(evst.out) : evst.out[i] \in {"5", "7", "8", "9", "3"}
    /\ shape.err # "none" =>
          /\ ~ArgumentsApplied
          /\ isError(evres) => evres = ErrorRaised

\* C28: no environment binds a name to an Error, no Array element and no
\* Hash key or value is an Error, and no function or builtin is applied to
\* an argument list that holds an Error: the evaluation ends with the Error
\* itself.
ErrorsNeverStored == NoErrorStored /\ (Finished /\ shape.err # "none" => isError(evres))

\* the Error is the second argument of a call inside a function: the first
\* argument was evaluated, the function was not applied
ErrorsNeverStoredWitness ==
    /\ Finished /\ shape.place = "second" /\ shape.top = "fn"
    /\ shape.err = "identifier"
    /\ evres = newError("identifier not found: zz")
    /\ evst.out = <<>>

\* without an Error the statement stores the value and the program goes on
ErrorsNeverStoredWitnessValue ==
    /\ Finished /\ shape.place = "element" /\ shape.top = "program"
    /\ shape.err = "none"
    /\ evst.out = <<"9">>
    /\ \E n \in DOMAIN evst.heap[TopEnv].store :
          evst.heap[TopEnv].store[n].Type = ARRAY_OBJ

(***************************************************************************)
(* C29.  SpecValue: an if-expression or a call whose block is empty or     *)
(* ends with a let (or, for comparison, ends with the expression 3),       *)
(* standing as a statement of its own or where a value is used.  The       *)
(* statement is followed by puts(9), at the top level or in the body of a  *)
(* function that is called.                                                *)
(***************************************************************************)
ValueKinds ==
    {"emptyThen", "letThen", "emptyElse", "letElse", "emptyFn", "letFn", "valueThen",
     "valueFn"}

ValueExpression(kind) ==
    LET let == Let("a", IntLit(1))
    IN  CASE kind = "emptyThen" -> IfThen(Bool(TRUE), <<>>)
          [] kind = "letThen" -> IfThen(Bool(TRUE), <<let>>)
          [] kind = "emptyElse" -> IfElse(Bool(FALSE), <<ExprStmt(IntLit(7))>>, <<>>)
          [] kind = "letElse" -> IfElse(Bool(FALSE), <<ExprStmt(IntLit(7))>>, <<let>>)
          [] kind = "emptyFn" -> Call(Fn(<<>>, <<>>), <<>>)
          [] kind = "letFn" -> Call(Fn(<<>>, <<let>>), <<>>)
          [] kind = "valueThen" -> IfThen(Bool(TRUE), <<let, ExprStmt(IntLit(3))>>)
          [] kind = "valueFn" -> Call(Fn(<<>>, <<let, ExprStmt(IntLit(3))>>), <<>>)

ValuePlaces ==
    {"statement", "let", "argument", "puts", "len", "push", "element", "key", "value",
     "minus", "bang", "left", "right", "equal", "indexed", "index", "condition"}

ValueStatement(sh) ==
    LET e == ValueExpression(sh.kind)
        p == sh.place
    IN  CASE p = "statement" -> ExprStmt(e)
          [] p = "let" -> Let("y", e)
          [] p = "argument" ->
                ExprStmt(Call(Fn(<<"b">>, <<ExprStmt(Ident("b"))>>), <<e>>))
          [] p = "puts" -> ExprStmt(Call(Ident("puts"), <<e>>))
          [] p = "len" -> ExprStmt(Call(Ident("len"), <<e>>))
          [] p = "push" -> ExprStmt(Call(Ident("push"), <<Arr(<<>>), e>>))
          [] p = "element" -> ExprStmt(Arr(<<IntLit(7), e>>))
          [] p = "key" -> ExprStmt(HashLit(<<<<e, IntLit(7)>>>>))
          [] p = "value" -> ExprStmt(HashLit(<<<<IntLit(7), e>>>>))
          [] p = "minus" -> ExprStmt(Prefix("-", e))
          [] p = "bang" -> ExprStmt(Prefix("!", e))
          [] p = "left" -> ExprStmt(Infix(e, "+", IntLit(7)))
          [] p = "right" -> ExprStmt(Infix(IntLit(7), "+", e))
          [] p = "equal" -> ExprStmt(Infix(Bool(TRUE), "==", e))
          [] p = "indexed" -> ExprStmt(Index(e, IntLit(0)))
          [] p = "index" -> ExprStmt(Index(Arr(<<IntLit(7)>>), e))
          [] p = "condition" -> ExprStmt(IfThen(e, <<ExprStmt(IntLit(7))>>))

\* STATEMENT puts(9);     or     let f = fn() { STATEMENT puts(9); }; f(); puts(8);
ValueProgram(sh) ==
    LET body == <<ValueStatement(sh), Puts(9)>>
    IN  IF sh.top = "fn"
        THEN <<Let("f", Fn(<<>>, body)), ExprStmt(Call(Ident("f"), <<>>)), Puts(8)>>
        ELSE body

ValueInit ==
    \E top \in {"fn", "program"}, place \in ValuePlaces, kind \in ValueKinds :
       LET sh == [top |-> top, place |-> place, kind |-> kind]
       IN  EvalStart(ValueProgram(sh), sh)

SpecValue == ValueInit /\ [][EvalNext]_vars

\* obj is the missing value (Go's nil), or an Array or a Hash that holds it
RECURSIVE HoldsNil(_)
HoldsNil(obj) ==
    IF obj = Nil THEN TRUE
    ELSE CASE obj.Type = ARRAY_OBJ ->
                 \E i \in 1 .. Len(obj.Elements) : HoldsNil(obj.Elements[i])
           [] obj.Type = HASH_OBJ ->
                 \E k \in DOMAIN obj.Pairs :
                     HoldsNil(obj.Pairs[k].Key) \/ HoldsNil(obj.Pairs[k].Value)
           [] OTHER -> FALSE

\* the expression statement that is the first statement of the program has
\* been evaluated: evres is what Eval returned for its expression
ExpressionEvaluated == shape.top = "program" /\ pc = 2

NoMissingValue ==
    /\ ~IsPanic(evres)
    /\ ExpressionEvaluated /\ program[1].kind = "ExpressionStatement" => ~HoldsNil(evres)
    /\ \A e \in 1 .. Len(evst.heap) : \A n \in DOMAIN evst.heap[e].store :
          ~HoldsNil(evst.heap[e].store[n])

\* C29: Eval returns an actual value for every expression, also for an if
\* whose taken branch is empty or ends with a let and for a call of a
\* function whose body is empty or ends with a let; so no operator, index
\* expression, builtin, array or hash receives a missing operand.
EveryExpressionHasValue == NoMissingValue

\* the same, for the blocks that end with an expression statement
ValueOfLastExpression == shape.kind \in {"valueThen", "valueFn"} => NoMissingValue

ValueOfLastExpressionWitness ==
    /\ Finished /\ shape.kind = "valueThen" /\ shape.place = "minus"
    /\ shape.top = "fn"
    /\ evst.out = <<"9", "8">>

\* the blocks that are empty or end with a let give the missing value: the
\* statement itself yields it, and an operator applied to it panics
MissingValueWitness ==
    /\ ExpressionEvaluated /\ shape.kind = "letThen" /\ shape.place = "statement"
    /\ evres = Nil

MissingOperandWitness ==
    /\ Finished /\ shape.kind = "emptyFn" /\ shape.place = "minus"
    /\ evres = NilDereference

(***************************************************************************)
(* C30.  SpecBlockEnd: ParseProgram, one iteration of its loop per step,   *)
(* on the first n words of a text in which every `{` opens the block of an *)
(* if, of an else or of a function literal, as they stand or with one      *)
(* word replaced by a word of BlockEndWords.                                *)
(***************************************************************************)
MaxBlockWords == 12

BlockEndSeeds ==
    {<<"if", "(", "a", ")", "{", "a", ";", "a", "}", "else", "{", "a", "}">>,
     <<"fn", "(", "a", ")", "{", "a", ";", "}", "(", "a", ")", ";">>,
     <<"let", "a", "=", "fn", "(", ")", "{", "if", "(", "a", ")", "{", "a", "}", "}">>,
     <<"if", "(", "a", ")", "{", "fn", "(", ")", "{", "a", "}", "}">>,
     <<"a", "(", "fn", "(", ")", "{", "a", "}", ",", "a", ")", ";">>}

BlockEndWords == {"a", ";"}

\* the texts: k = 0 leaves the words as they are
BlockEndTexts ==
    {[i \in 1 .. n |-> IF i = k THEN w ELSE seed[i]] :
        <<seed, n, k, w>> \in
            {t \in BlockEndSeeds \X (0 .. MaxBlockWords) \X (0 .. MaxBlockWords)
                   \X BlockEndWords :
                t[2] <= Len(t[1]) /\ t[3] <= t[2]}}

BlockEndInit ==
    /\ input \in {Source(ws) : ws \in BlockEndTexts}
    /\ parser = ParserNew(New(input))
    /\ program = <<>>
    /\ LexIdle /\ EnvIdle /\ EvalIdle

SpecBlockEnd == BlockEndInit /\ [][ParseNext]_vars

\* the number of tokens of type t among toks
RECURSIVE CountType(_, _)
CountType(toks, t) ==
    IF toks = <<>> THEN 0
    ELSE (IF Head(toks).Type = t THEN 1 ELSE 0) + CountType(Tail(toks), t)

\* the input ends before the closing brace of a block it has opened
EndsInsideBlock ==
    LET toks == TokensOf(New(input))
    IN  CountType(toks, LBRACE) > CountType(toks, RBRACE)

\* C30: when the input ends before the closing `}` of an open block, the
\* error list ParseProgram returns with is not empty: a tree returned with
\* an empty error list has every block closed by a `}`.
BlocksMustBeClosed ==
    curTokenIs(parser, EOF) /\ EndsInsideBlock => parser.errors # <<>>

\* the same, for the texts that close every block they open
ClosedBlocksParse ==
    curTokenIs(parser, EOF) /\ input \in {Source(seed) : seed \in BlockEndSeeds}
        => parser.errors = <<>> /\ ~EndsInsideBlock

ClosedBlocksParseWitness ==
    /\ input = Source(<<"if", "(", "a", ")", "{", "fn", "(", ")", "{", "a", "}", "}">>)
    /\ curTokenIs(parser, EOF)
    /\ Len(program) = 1

\* the block of an if is left open at the end of the input: ParseProgram
\* returns the if-expression with the statements read so far and no error
UnclosedBlockWitness ==
    /\ input = Source(<<"if", "(", "a", ")", "{", "a", ";", "a">>)
    /\ curTokenIs(parser, EOF)
    /\ parser.errors = <<>>
    /\ Len(program) = 1
    /\ program[1].Expression.kind = "IfExpression"
    /\ Len(program[1].Expression.Consequence.Statements) = 2

(***************************************************************************)
(* The REPL: Start.  Each step is one iteration of its loop: the prompt,   *)
(* one line read from the input, lexed and parsed, then the parser errors  *)
(* or the evaluation in the environment made before the loop and the       *)
(* result written.  When the input ends Start returns; a panic of the      *)
(* evaluator ends the process.                                             *)
(***************************************************************************)
PROMPT == ">> "

MONKEY_FACE ==
    "            __,__\n"
    \o "   .--.  .-\"     \"-.  .--.\n"
    \o "  / .. \\/  .-. .-.  \\/ .. \\\n"
    \o " | |  '|  /   Y   \\  |'  | |\n"
    \o " | \\   \\  \\ 0 | 0 /  /   / |\n"
    \o "  \\ '- ,\\.-\"\"\"\"\"\"\"-./, -' /\n"
    \o "   ''-' /_   ^ ^   _\\ '-''\n"
    \o "       |  \\._   _./  |\n"
    \o "       \\   \\ '~' /   /\n"
    \o "        '._ '-=-' _.'\n"
    \o "           '-----'\n"

RECURSIVE printErrorsLoop(_, _, _)
printErrorsLoop(written, errors, i) ==
    IF i > Len(errors) THEN written
    ELSE printErrorsLoop(Append(written, "\t" \o errors[i] \o "\n"), errors, i + 1)

printParserErrors(written, errors) ==
    printErrorsLoop(written \o <<MONKEY_FACE,
                                 "Woops! We ran into some monkey business here!\n",
                                 " parser errors:\n">>,
                    errors, 1)

\* Start from `evaluated := evaluator.Eval(program, env)` on
StartEvaluated(r, evaluated, written) ==
    [p |-> r.p, program |-> r.node.Statements, st |-> evaluated.st, val |-> evaluated.val,
     out |-> IF evaluated.val # Nil /\ ~IsPanic(evaluated.val)
             THEN written \o <<Inspect(evaluated.val), "\n">> ELSE written,
     running |-> ~IsPanic(evaluated.val)]

\* Start, were it to evaluate the program whatever the parser reported
StartProgramNoErrorCheck(r, st, written) ==
    StartEvaluated(r, eval("Eval", <<r.node, TopEnv, st>>), written)

\* Start from `if len(p.Errors()) != 0` on, r being the parser and the program
StartProgram(r, st, written) ==
    IF Len(r.p.errors) # 0
    THEN [p |-> r.p, program |-> r.node.Statements, st |-> st, val |-> Nil,
          out |-> printParserErrors(written, r.p.errors), running |-> TRUE]
    ELSE StartEvaluated(r, eval("Eval", <<r.node, TopEnv, st>>), written)

\* the loop body of Start after the line was read
StartLine(line, st, written) ==
    StartProgram(parse("ParseProgram", <<line>>), st, written)

MaxLines == 3

ReplLines ==
    {<<"let", "a", "=", "1", ";">>,
     <<"let", "a", "=", "2", ";">>,
     <<"let", "b", "=", "a", ";">>,
     <<"a">>,
     <<"b">>,
     <<"let", "b", "=", "u", ";">>,
     <<"let", "a", "=", "3", ";", "let", "b", "4">>,
     <<"let", "a", "5">>,
     <<"1", "/", "0">>}

ReplInit ==
    /\ input = <<>>
    /\ parser = <<>>
    /\ program = <<>>
    /\ evst = NewState
    /\ evres = Nil
    /\ pc = 1
    /\ shape = <<>>
    /\ out = <<>>
    /\ LexIdle /\ EnvIdle

\* scanner.Scan() read a line
ReplLine ==
    /\ pc = 1
    /\ Len(shape) < MaxLines
    /\ \E words \in ReplLines :
       \E r \in {StartLine(Source(words), evst, Append(out, PROMPT))} :
          /\ input' = Source(words)
          /\ parser' = r.p
          /\ program' = r.program
          /\ evst' = r.st
          /\ evres' = r.val
          /\ out' = r.out
          /\ pc' = IF r.running THEN 1 ELSE 0
          /\ shape' = Append(shape, words)
    /\ UNCHANGED <<LexVars, EnvVars>>

\* scanner.Scan() found the end of the input
ReplEof ==
    /\ pc = 1
    /\ out' = Append(out, PROMPT)
    /\ pc' = 0
    /\ UNCHANGED <<input, LexVars, EnvVars, ParseVars, evst, evres, shape>>

ReplNext == ReplLine \/ ReplEof

SpecRepl == ReplInit /\ [][ReplNext]_vars

(***************************************************************************)
(* C6.  REPL session state.                                                *)
(***************************************************************************)
Names == {"a", "b"}

\* the step read a line: the last of shape'
ReadsLine == Len(shape') = Len(shape) + 1

\* the words are `let name = digit ;`
LetsLiteral(words, name) ==
    /\ Len(words) = 5
    /\ words[1] = "let" /\ words[2] = name /\ words[3] = "="
    /\ words[4] \in {"1", "2", "3", "4", "5"} /\ words[5] = ";"

\* C6: a line with a parser error is not evaluated and leaves the evaluator's
\* state, the environment with it, as it was; a line `let name = digit;`
\* binds the name to the digit; a line that is no let of a name leaves its
\* binding as it was; and a line that reads a bound name, as its expression
\* or as the value of another let, gets the value bound on the earlier line.
ReplSession ==
    [][ReadsLine =>
        LET words == shape'[Len(shape')]
            failed == parser'.errors # <<>>
        IN  /\ failed => evst' = evst /\ evres' = Nil /\ pc' = 1
            /\ \A name \in Names :
                  /\ ~failed /\ LetsLiteral(words, name) =>
                        Bound(name)' = [obj |-> Integer(DigitValue(words[4])), ok |-> TRUE]
                  /\ ~failed /\ ~(words[1] = "let" /\ words[2] = name) =>
                        Bound(name)' = Bound(name)
                  /\ words = <<name>> /\ Bound(name).ok =>
                        /\ evres' = Bound(name).obj
                        /\ out' = out \o <<PROMPT, Inspect(Bound(name).obj), "\n">>
            /\ words = <<"let", "b", "=", "a", ";">> /\ Bound("a").ok =>
                  Bound("b")' = Bound("a")
      ]_vars

\* a is bound on line 1, line 2 holds a let of a and a parser error, line 3
\* reads a
ReplSessionWitness ==
    /\ shape = << <<"let", "a", "=", "1", ";">>,
                  <<"let", "a", "=", "3", ";", "let", "b", "4">>,
                  <<"a">> >>
    /\ parser.errors = <<>>
    /\ evres = Integer(1)
    /\ Bound("a") = [obj |-> Integer(1), ok |-> TRUE]
    /\ out[Len(out) - 1] = "1"
    /\ pc = 1

====
